---------------------------- MODULE Spec2Model ----------------------------
(***************************************************************************)
(* Model of the CPU line expander of the Lines repository                  *)
(* (src/cpu_lines.h, cpu_lines_expand) and of the arithmetic it uses       *)
(* (src/extern/msh_vec_math.h, src/extern/msh_std.h).                      *)
(*                                                                         *)
(* Numbers.  A float is modelled by the real number it stands for, kept as *)
(* a normalised fraction [n |-> numerator, d |-> denominator] with d > 0;  *)
(* d = 0 encodes the IEEE specials: [n |-> 1, d |-> 0] is +inf,            *)
(* [n |-> -1, d |-> 0] is -inf and [n |-> 0, d |-> 0] is NaN.  Rounding of *)
(* single precision is not modelled.  The inputs of the model are chosen   *)
(* so that every square root taken is the root of a perfect square         *)
(* (ExactInputs), so no approximation of sqrt enters a reachable state.    *)
(*                                                                         *)
(* Memory.  quad_buf is the memory starting at the caller's output         *)
(* pointer: MemLen records, of which the caller declares the first         *)
(* quad_buf_cap as capacity.  line_buf is the caller's input of            *)
(* line_buf_len vertices; past_end is whatever lies in memory right after  *)
(* it (read when the code indexes line_buf[line_buf_len]).                 *)
(***************************************************************************)
EXTENDS Integers, Sequences, FiniteSets, TLC

VARIABLES
  pc,               \* "call": inputs chosen, before the call; "done": after it
  line_buf,         \* input vertices (1-based sequence; C index i is line_buf[i+1])
  past_end,         \* the memory right after line_buf, read as a vertex
  uniform,          \* [mvp, viewport_size, aa_radius] passed to the call
  quad_buf,         \* output memory, a function on 0..MemLen-1
  quad_buf_len,     \* the caller's count variable (*quad_buf_len)
  quad_buf_cap,     \* the declared capacity
  diag,             \* TRUE iff the call printed "Not enough space ..." on stderr
  writes,           \* set of output indices the call stored to
  reads,            \* set of input indices the call loaded from
  old_quad_buf,     \* quad_buf at the entry of the call
  old_quad_buf_len, \* *quad_buf_len at the entry of the call
  guard,            \* the capacity check alone: its operands and its outcome
  gl,               \* gl_lines_render: its locals and the draw calls issued so far
  backend,          \* the backend whose device the caller holds
  handle,           \* the caller's device pointer: "NULL" or "device"
  device,           \* the device record on the heap
  latest,           \* history: the uniform pointer passed to the most recent update
  call,             \* the last call on the device: its name, what it returned and read
  gpu,              \* what the last update uploaded and the last render drew
  vs                \* the line-data storage of a GPU backend and the draw running on it

vars == <<pc, line_buf, past_end, uniform, quad_buf, quad_buf_len, quad_buf_cap,
          diag, writes, reads, old_quad_buf, old_quad_buf_len, guard, gl,
          backend, handle, device, latest, call, gpu, vs>>

\* the variables of a call of cpu_lines_expand
expander_vars == <<pc, line_buf, past_end, uniform, quad_buf, quad_buf_len, quad_buf_cap,
                   diag, writes, reads, old_quad_buf, old_quad_buf_len>>

---------------------------------------------------------------------------
(* Bounds of the model *)

MaxLen == 3

StaleCount == 7

MemLen == 3 * MaxLen + 3

---------------------------------------------------------------------------
(* Scalars: msh_scalar_t is float *)

Abs(i) == IF i < 0 THEN -i ELSE i

Sign(i) == IF i < 0 THEN -1 ELSE IF i > 0 THEN 1 ELSE 0

RECURSIVE GCD(_, _)
GCD(a, b) == IF b = 0 THEN a ELSE GCD(b, a % b)

Rat(n, d) ==
  IF d = 0 THEN [n |-> Sign(n), d |-> 0]
  ELSE LET g == GCD(Abs(n), Abs(d))
           s == IF d < 0 THEN -1 ELSE 1
       IN  [n |-> (s * n) \div g, d |-> (s * d) \div g]

R(i) == [n |-> i, d |-> 1]

NaN == [n |-> 0, d |-> 0]

IsNaN(a) == a.d = 0 /\ a.n = 0

IsFinite(a) == a.d # 0

FNeg(a) == [n |-> -a.n, d |-> a.d]

FAdd(a, b) ==
  IF IsNaN(a) \/ IsNaN(b) THEN NaN
  ELSE IF a.d = 0 /\ b.d = 0 THEN (IF a.n = b.n THEN a ELSE NaN)
  ELSE IF a.d = 0 THEN a
  ELSE IF b.d = 0 THEN b
  ELSE IF a.n = 0 THEN b
  ELSE IF b.n = 0 THEN a
  ELSE IF a.d = 1 /\ b.d = 1 THEN [n |-> a.n + b.n, d |-> 1]
  ELSE LET g == GCD(a.d, b.d)
       IN  Rat(a.n * (b.d \div g) + b.n * (a.d \div g), (a.d \div g) * b.d)

FSub(a, b) == FAdd(a, FNeg(b))

FMul(a, b) ==
  IF IsNaN(a) \/ IsNaN(b) THEN NaN
  ELSE IF a.d = 0 \/ b.d = 0
       THEN (IF a.n = 0 \/ b.n = 0 THEN NaN
             ELSE [n |-> Sign(a.n) * Sign(b.n), d |-> 0])
  ELSE IF a.n = 0 \/ b.n = 0 THEN [n |-> 0, d |-> 1]
  ELSE IF a.d = 1 /\ b.d = 1 THEN [n |-> a.n * b.n, d |-> 1]
  ELSE LET p == Rat(a.n, b.d)
           q == Rat(b.n, a.d)
       IN  [n |-> p.n * q.n, d |-> p.d * q.d]

FInv(a) ==
  IF IsNaN(a) THEN NaN
  ELSE IF a.d = 0 THEN R(0)
  ELSE IF a.n = 0 THEN [n |-> 1, d |-> 0]
  ELSE IF a.n > 0 THEN [n |-> a.d, d |-> a.n]
  ELSE [n |-> -a.d, d |-> -a.n]

FDiv(a, b) == FMul(a, FInv(b))

FLt(a, b) ==
  IF IsNaN(a) \/ IsNaN(b) THEN FALSE
  ELSE IF a.d = 0 \/ b.d = 0
       THEN (IF a.d = 0 THEN a.n ELSE 0) < (IF b.d = 0 THEN b.n ELSE 0)
  ELSE LET g == GCD(a.d, b.d)
       IN  a.n * (b.d \div g) < b.n * (a.d \div g)

FGt(a, b) == FLt(b, a)

RECURSIVE ISqrtIter(_, _, _)
ISqrtIter(n, lo, hi) ==
  IF lo >= hi THEN lo
  ELSE LET mid == (lo + hi + 1) \div 2
       IN  IF mid * mid <= n THEN ISqrtIter(n, mid, hi)
           ELSE ISqrtIter(n, lo, mid - 1)

ISqrt(n) == ISqrtIter(n, 0, IF n < 46340 THEN n ELSE 46340)

IsSquare(a) == IsFinite(a) /\ a.n >= 0 /\ ISqrt(a.n * a.d) * ISqrt(a.n * a.d) = a.n * a.d

FSqrt(a) ==
  IF IsNaN(a) THEN NaN
  ELSE IF a.d = 0 THEN (IF a.n > 0 THEN a ELSE NaN)
  ELSE IF a.n < 0 THEN NaN
  ELSE Rat(ISqrt(a.n * a.d), a.d)

msh_max(a, b) == IF FGt(a, b) THEN a ELSE b

msh_min(a, b) == IF FLt(a, b) THEN a ELSE b

---------------------------------------------------------------------------
(* Vectors and matrices *)

msh_vec2(x, y) == [x |-> x, y |-> y]

msh_vec3(x, y, z) == [x |-> x, y |-> y, z |-> z]

msh_vec4(x, y, z, w) == [x |-> x, y |-> y, z |-> z, w |-> w]

msh_vec2_sub(a, b) == msh_vec2(FSub(a.x, b.x), FSub(a.y, b.y))

msh_vec2_mul(a, b) == msh_vec2(FMul(a.x, b.x), FMul(a.y, b.y))

msh_vec2_scalar_div(v, s) ==
  LET denom == FDiv(R(1), s)
  IN  msh_vec2(FMul(v.x, denom), FMul(v.y, denom))

msh_vec2_normalize(v) ==
  LET denom == FDiv(R(1), FSqrt(FAdd(FMul(v.x, v.x), FMul(v.y, v.y))))
  IN  msh_vec2(FMul(v.x, denom), FMul(v.y, denom))

msh_vec2_norm(v) == FSqrt(FAdd(FMul(v.x, v.x), FMul(v.y, v.y)))

\* m is data[0..15], column-major; data[k] is m[k+1]
msh_mat4_vec4_mul(m, v) ==
  LET row(r) == FAdd(FAdd(FMul(m[r + 1], v.x), FMul(m[r + 5], v.y)),
                     FAdd(FMul(m[r + 9], v.z), FMul(m[r + 13], v.w)))
  IN  msh_vec4(row(0), row(1), row(2), row(3))

---------------------------------------------------------------------------
(* uint32_t arithmetic.  A uint32_t is kept as two 16-bit limbs <<hi, lo>>  *)
(* so that line_buf_len * 3 wraps modulo 2^32 as it does in C.              *)

Limb == 256 * 256

ToU32(i) == <<(i \div Limb) % Limb, i % Limb>>

U32Mul3(u) ==
  LET lo == u[2] * 3
      hi == u[1] * 3 + (lo \div Limb)
  IN  <<hi % Limb, lo % Limb>>

U32Ge(u, v) == u[1] > v[1] \/ (u[1] = v[1] /\ u[2] >= v[2])

---------------------------------------------------------------------------
(* cpu_lines_expand, the per-segment computation *)

\* a guard that forgets the factor 3
NotEnoughSpaceNoFactor(line_buf_len, cap) == U32Ge(ToU32(line_buf_len), ToU32(cap))

\* line 30: if( line_buf_len * 3 >= quad_buf_cap ), on uint32_t operands
NotEnoughSpace(line_buf_len, cap) == U32Ge(U32Mul3(ToU32(line_buf_len)), ToU32(cap))

\* lines 49-50: model space to clip space
ClipPos(mvp, v) == msh_mat4_vec4_mul(mvp, msh_vec4(v.pos.x, v.pos.y, v.pos.z, R(1)))

\* lines 55-56: perspective divide of xy
Ndc(clip) == msh_vec2_scalar_div(msh_vec2(clip.x, clip.y), clip.w)

\* line 41
AspectRatio(viewport_size) == FDiv(viewport_size.y, viewport_size.x)

\* line 61
Dir(line_vector, aspect_ratio) ==
  msh_vec2_normalize(msh_vec2(line_vector.x, FMul(line_vector.y, aspect_ratio)))

\* lines 65-66
LineWidth(v, aa_radius) == FAdd(msh_max(R(1), v.width), aa_radius.x)

\* a length that counts the cap extension once, not at both ends
LineLengthOneCap(line_vector, viewport_size, aa_radius) ==
  FAdd(msh_vec2_norm(msh_vec2_mul(line_vector, viewport_size)), aa_radius.y)

\* lines 60, 67
LineLength(line_vector, viewport_size, aa_radius) ==
  FAdd(msh_vec2_norm(msh_vec2_mul(line_vector, viewport_size)),
       FMul(R(2), aa_radius.y))

\* line 68
Normal(dir) == msh_vec2(FNeg(dir.y), dir.x)

\* a normal scaled by the viewport height on both axes
ScaledNormalByHeight(line_width, viewport_size, normal) ==
  msh_vec2_mul(msh_vec2(FDiv(line_width, viewport_size.y),
                        FDiv(line_width, viewport_size.y)), normal)

\* a normal left in pixels, never divided by the viewport size
ScaledNormalInPixels(line_width, viewport_size, normal) ==
  msh_vec2_mul(msh_vec2(line_width, line_width), normal)

\* lines 69-70
ScaledNormal(line_width, viewport_size, normal) ==
  msh_vec2_mul(msh_vec2(FDiv(line_width, viewport_size.x),
                        FDiv(line_width, viewport_size.y)), normal)

\* line 71
Extension(viewport_size, aa_radius, dir) ==
  msh_vec2_mul(msh_vec2(FDiv(aa_radius.y, viewport_size.x),
                        FDiv(aa_radius.y, viewport_size.y)), dir)

\* a corner that always adds the extension, at A as at B
CornerExtensionForward(ndc, normal, extension, sn, se, clip) ==
  msh_vec4(FMul(FAdd(FAdd(ndc.x, FMul(R(sn), normal.x)), extension.x), clip.w),
           FMul(FAdd(FAdd(ndc.y, FMul(R(sn), normal.y)), extension.y), clip.w),
           clip.z,
           clip.w)

\* lines 74-90: one corner; sn is the sign of the normal, se of the extension
Corner(ndc, normal, extension, sn, se, clip) ==
  msh_vec4(FMul(FAdd(FAdd(ndc.x, FMul(R(sn), normal.x)), FMul(R(se), extension.x)), clip.w),
           FMul(FAdd(FAdd(ndc.y, FMul(R(sn), normal.y)), FMul(R(se), extension.y)), clip.w),
           clip.z,
           clip.w)

\* lines 93-94: both alphas start from src_v0->col.w
Alpha(src_v0, v) == msh_min(FMul(src_v0.col.w, v.width), R(1))

Vtx(clip_pos, col, line_params) ==
  [clip_pos |-> clip_pos, col |-> col, line_params |-> line_params]

\* The body of the loop, lines 45-120, is written as a chain of operators, one
\* per group of locals of the C code; each passes the values computed so far
\* to the next, so that every local is computed once.

\* six records whose last one carries u = -1 although its corner is offset by -normal
QuadRecordsLastOnLeft(clip_a0, clip_a1, clip_b0, clip_b1, col_a, col_b, line_width_a, line_width_b, half_length) ==
  << Vtx(clip_a0, col_a, msh_vec4(R(-1), R(-1), line_width_a, half_length)),
     Vtx(clip_a1, col_a, msh_vec4(R(1),  R(-1), line_width_a, half_length)),
     Vtx(clip_b0, col_b, msh_vec4(R(-1), R(1),  line_width_b, half_length)),
     Vtx(clip_a1, col_a, msh_vec4(R(1),  R(-1), line_width_a, half_length)),
     Vtx(clip_b0, col_b, msh_vec4(R(-1), R(1),  line_width_b, half_length)),
     Vtx(clip_b1, col_b, msh_vec4(R(-1), R(1),  line_width_b, half_length)) >>

\* lines 98-120: the six records stored at dst + 0 .. dst + 5
QuadRecords(clip_a0, clip_a1, clip_b0, clip_b1, col_a, col_b, line_width_a, line_width_b, half_length) ==
  << Vtx(clip_a0, col_a, msh_vec4(R(-1), R(-1), line_width_a, half_length)),
     Vtx(clip_a1, col_a, msh_vec4(R(1),  R(-1), line_width_a, half_length)),
     Vtx(clip_b0, col_b, msh_vec4(R(-1), R(1),  line_width_b, half_length)),
     Vtx(clip_a1, col_a, msh_vec4(R(1),  R(-1), line_width_a, half_length)),
     Vtx(clip_b0, col_b, msh_vec4(R(-1), R(1),  line_width_b, half_length)),
     Vtx(clip_b1, col_b, msh_vec4(R(1),  R(1),  line_width_b, half_length)) >>

\* corners of B multiplied back by the w of A
QuadFromOffsetsWOfA(src_v0, src_v1, clip_a, clip_b, ndc_a, ndc_b, normal_a, normal_b, extension, line_width_a, line_width_b, line_length) ==
  QuadRecords(Corner(ndc_a, normal_a, extension,  1, -1, clip_a),
              Corner(ndc_a, normal_a, extension, -1, -1, clip_a),
              Corner(ndc_b, normal_b, extension,  1,  1, msh_vec4(clip_b.x, clip_b.y, clip_b.z, clip_a.w)),
              Corner(ndc_b, normal_b, extension, -1,  1, msh_vec4(clip_b.x, clip_b.y, clip_b.z, clip_a.w)),
              msh_vec4(src_v0.col.x, src_v0.col.y, src_v0.col.z, Alpha(src_v0, src_v0)),
              msh_vec4(src_v1.col.x, src_v1.col.x, src_v1.col.z, Alpha(src_v0, src_v1)),
              line_width_a, line_width_b, FMul(Rat(1, 2), line_length))

\* lines 74-94: the four corners and the two colours
QuadFromOffsets(src_v0, src_v1, clip_a, clip_b, ndc_a, ndc_b, normal_a, normal_b, extension, line_width_a, line_width_b, line_length) ==
  QuadRecords(Corner(ndc_a, normal_a, extension,  1, -1, clip_a),
              Corner(ndc_a, normal_a, extension, -1, -1, clip_a),
              Corner(ndc_b, normal_b, extension,  1,  1, clip_b),
              Corner(ndc_b, normal_b, extension, -1,  1, clip_b),
              msh_vec4(src_v0.col.x, src_v0.col.y, src_v0.col.z, Alpha(src_v0, src_v0)),
              msh_vec4(src_v1.col.x, src_v1.col.x, src_v1.col.z, Alpha(src_v0, src_v1)),
              line_width_a, line_width_b, FMul(Rat(1, 2), line_length))

\* lines 68-71: normal, normal_a, normal_b, extension
QuadFromWidths(src_v0, src_v1, clip_a, clip_b, ndc_a, ndc_b, dir, line_width_a, line_width_b, line_length, viewport_size, aa_radius) ==
  QuadFromOffsets(src_v0, src_v1, clip_a, clip_b, ndc_a, ndc_b,
                  ScaledNormal(line_width_a, viewport_size, Normal(dir)),
                  ScaledNormal(line_width_b, viewport_size, Normal(dir)),
                  Extension(viewport_size, aa_radius, dir),
                  line_width_a, line_width_b, line_length)

\* lines 60-67: dir, line_width_a, line_width_b, line_length
QuadFromVector(src_v0, src_v1, clip_a, clip_b, ndc_a, ndc_b, line_vector, viewport_size, aa_radius) ==
  QuadFromWidths(src_v0, src_v1, clip_a, clip_b, ndc_a, ndc_b,
                 Dir(line_vector, AspectRatio(viewport_size)),
                 LineWidth(src_v0, aa_radius), LineWidth(src_v1, aa_radius),
                 LineLength(line_vector, viewport_size, aa_radius),
                 viewport_size, aa_radius)

\* line 59: line_vector
QuadFromNdc(src_v0, src_v1, clip_a, clip_b, ndc_a, ndc_b, viewport_size, aa_radius) ==
  QuadFromVector(src_v0, src_v1, clip_a, clip_b, ndc_a, ndc_b,
                 msh_vec2_sub(ndc_b, ndc_a), viewport_size, aa_radius)

\* lines 55-56: ndc_a, ndc_b
QuadFromClip(src_v0, src_v1, clip_a, clip_b, viewport_size, aa_radius) ==
  QuadFromNdc(src_v0, src_v1, clip_a, clip_b, Ndc(clip_a), Ndc(clip_b),
              viewport_size, aa_radius)

\* lines 45-120: the six records written for the segment (src_v0, src_v1)
SegmentQuad(src_v0, src_v1, mvp, viewport_size, aa_radius) ==
  QuadFromClip(src_v0, src_v1, ClipPos(mvp, src_v0), ClipPos(mvp, src_v1),
               viewport_size, aa_radius)

---------------------------------------------------------------------------
(* cpu_lines_expand, the loop *)

\* line_buf + i: inside the buffer, the vertex; at line_buf_len, what follows it
ReadLine(buf, past, i) == IF i < Len(buf) THEN buf[i + 1] ELSE past

\* line 43: i < line_buf_len
LoopCond(i, line_buf_len) == i < line_buf_len

\* a loop that advances by one vertex instead of one pair
LoopStepByOne(i) == i + 1

\* line 43: i += 2
LoopStep(i) == i + 2

\* line 122: *quad_buf_len += 6
CountStep(len) == len + 6

\* a destination that is never advanced
DstAtStart(len) == 0

\* line 123: dst = quad_buf + (*quad_buf_len)
DstAt(len) == len

\* a store that keeps the records an earlier call wrote (their clip w is not 0)
StoreOnce(mem, dst, quad) ==
  [k \in DOMAIN mem |-> IF k >= dst /\ k < dst + 6 /\ mem[k].clip_pos.w = R(0)
                         THEN quad[k - dst + 1] ELSE mem[k]]

\* a store that runs one record too far and repeats the first record there
StoreSeven(mem, dst, quad) ==
  [k \in DOMAIN mem |-> IF k >= dst /\ k <= dst + 6 THEN quad[((k - dst) % 6) + 1] ELSE mem[k]]

\* lines 98-120: store the six records at dst + 0 .. dst + 5
Store(mem, dst, quad) ==
  [k \in DOMAIN mem |-> IF k >= dst /\ k < dst + 6 THEN quad[k - dst + 1] ELSE mem[k]]

\* a loop that gives up at the first segment whose projected endpoints coincide
RECURSIVE ExpandLoopUntilDegenerate(_, _, _, _, _, _)
ExpandLoopUntilDegenerate(i, buf, past, line_buf_len, st, u) ==
  IF ~LoopCond(i, line_buf_len) THEN st
  ELSE LET src_v0 == ReadLine(buf, past, i)
           src_v1 == ReadLine(buf, past, i + 1)
           quad   == SegmentQuad(src_v0, src_v1, u.mvp, u.viewport_size, u.aa_radius)
           len    == CountStep(st.quad_buf_len)
       IN  IF Ndc(ClipPos(u.mvp, src_v0)) = Ndc(ClipPos(u.mvp, src_v1)) THEN st
           ELSE ExpandLoopUntilDegenerate(LoopStep(i), buf, past, line_buf_len,
                      [quad_buf     |-> Store(st.quad_buf, st.dst, quad),
                       quad_buf_len |-> len,
                       dst          |-> DstAt(len),
                       writes       |-> st.writes \cup (st.dst .. st.dst + 5),
                       reads        |-> st.reads \cup {i, i + 1}],
                      u)

\* st = [quad_buf, quad_buf_len, dst, writes, reads]
RECURSIVE ExpandLoop(_, _, _, _, _, _)
ExpandLoop(i, buf, past, line_buf_len, st, u) ==
  IF ~LoopCond(i, line_buf_len) THEN st
  ELSE LET src_v0 == ReadLine(buf, past, i)
           src_v1 == ReadLine(buf, past, i + 1)
           quad   == SegmentQuad(src_v0, src_v1, u.mvp, u.viewport_size, u.aa_radius)
           len    == CountStep(st.quad_buf_len)
       IN  ExpandLoop(LoopStep(i), buf, past, line_buf_len,
                      [quad_buf     |-> Store(st.quad_buf, st.dst, quad),
                       quad_buf_len |-> len,
                       dst          |-> DstAt(len),
                       writes       |-> st.writes \cup (st.dst .. st.dst + 5),
                       reads        |-> st.reads \cup {i, i + 1}],
                      u)

\* line 37: *quad_buf_len = 0
CountReset(len) == 0

\* lines 25-125: the whole call; the result is the memory after it
cpu_lines_expand(buf, past, line_buf_len, mem, len, cap, u) ==
  IF NotEnoughSpace(line_buf_len, cap)
  THEN [quad_buf |-> mem, quad_buf_len |-> len, diag |-> TRUE,
        writes |-> {}, reads |-> {}]
  ELSE LET st == ExpandLoop(0, buf, past, line_buf_len,
                            [quad_buf |-> mem, quad_buf_len |-> CountReset(len),
                             dst |-> 0, writes |-> {}, reads |-> {}], u)
       IN  [quad_buf |-> st.quad_buf, quad_buf_len |-> st.quad_buf_len,
            diag |-> FALSE, writes |-> st.writes, reads |-> st.reads]

---------------------------------------------------------------------------
(* Inputs of the model *)

\* a vertex_t as cpu_lines_expand reads it: pos, width, and a col with the
\* components x, y, z and w (line 93: src_v0->col.w).  The vertex_t of main.c
\* has a col of three floats and no w; in memory it is the first seven floats
\* of this record (VertexFloats).
Vertex(px, py, pz, width, r, g, b, a) ==
  [pos |-> msh_vec3(px, py, pz), width |-> width, col |-> msh_vec4(r, g, b, a)]

\* the endpoints of the spec's concrete scenario: width 2, red
VA == Vertex(R(-1), R(0), R(0), R(2), R(1), R(0), R(0), R(1))

VB == Vertex(R(1), R(0), R(0), R(2), R(1), R(0), R(0), R(1))

\* above VA, wider, translucent
VC == Vertex(R(-1), R(2), R(0), R(4), R(0), Rat(1, 2), R(1), Rat(1, 2))

\* at VB's position, thinner than a pixel
VD == Vertex(R(1), R(0), R(0), Rat(3, 10), Rat(1, 2), R(1), R(0), Rat(1, 2))

Vertices == {VA, VB, VC, VD}

\* msh_mat4_identity, column-major
MatIdentity ==
  << R(1), R(0), R(0), R(0),   R(0), R(1), R(0), R(0),
     R(0), R(0), R(1), R(0),   R(0), R(0), R(0), R(1) >>

\* a projective matrix: clip.z = z + 1, clip.w = x/2 + 2
MatPersp ==
  << R(1), R(0), R(0), Rat(1, 2),   R(0), R(1), R(0), R(0),
     R(0), R(0), R(1), R(0),        R(0), R(0), R(1), R(2) >>

Uniform(mvp, vw, vh, ax, ay) ==
  [mvp |-> mvp, viewport_size |-> msh_vec2(R(vw), R(vh)), aa_radius |-> msh_vec2(ax, ay)]

Uniforms ==
  { Uniform(MatIdentity, 800, 600, R(2), R(2)),
    Uniform(MatIdentity, 1000, 500, R(2), R(1)),
    Uniform(MatIdentity, 1600, 1200, R(1), R(1)),
    Uniform(MatPersp, 800, 600, R(1), R(2)) }

\* the vector whose norm line 61 takes, for the segment (v0, v1)
DirVector(v0, v1, u) ==
  LET line_vector == msh_vec2_sub(Ndc(ClipPos(u.mvp, v1)), Ndc(ClipPos(u.mvp, v0)))
  IN  msh_vec2(line_vector.x, FMul(line_vector.y, AspectRatio(u.viewport_size)))

\* the norm of the segment's direction vector is a rational number
ExactSegment(v0, v1, u) ==
  LET v == DirVector(v0, v1, u)
  IN  IsSquare(FAdd(FMul(v.x, v.x), FMul(v.y, v.y)))

\* every pair the loop of cpu_lines_expand consumes is exact
ExactInputs(buf, past, u) ==
  \A i \in 0 .. Len(buf) - 1 :
    i % 2 = 0 => ExactSegment(ReadLine(buf, past, i), ReadLine(buf, past, i + 1), u)

\* the capacities tried for an input of n vertices: the extremes, and every
\* capacity from one below the requirement 3n to what n + 1 vertices require
Capacities(n) ==
  { c \in 0 .. MemLen : c = 0 \/ c = MemLen \/ (c >= 3 * n - 1 /\ c <= 3 * n + 3) }

\* a record no call writes (u = 0): the content of the caller's memory before the call
Stale ==
  Vtx(msh_vec4(R(0), R(0), R(0), R(0)), msh_vec4(R(0), R(0), R(0), R(0)),
      msh_vec4(R(0), R(0), R(0), R(0)))

---------------------------------------------------------------------------
(* The state machine: the caller prepares a call, cpu_lines_expand runs *)

\* the function a variable follows has not been called: the capacity check of
\* cpu_lines_expand on its own (guard), gl_lines_render (gl), the draw call
\* whose vertex shader runs (vs)
NotCalled == [at |-> "none"]

\* no record on the heap: before malloc and after free
NoDevice ==
  [live |-> FALSE, uniform_data |-> "NULL", vertex_data |-> <<>>, vertex_data_len |-> 0,
   quad_buf_bytes |-> 0]

\* no call has been made on the device
NoCall == [op |-> "none", n_elems |-> 0, elem_count |-> 0, uniform_read |-> "NULL", fault |-> FALSE]

\* no device has been created
DeviceIdle ==
  /\ backend = "none"
  /\ handle = "NULL"
  /\ device = NoDevice
  /\ latest = "NULL"
  /\ call = NoCall
  /\ gpu = [uploaded |-> 0, draws |-> <<>>]

\* the variables of a device and of the calls on it
device_vars == <<backend, handle, device, latest, call, gpu>>

Init ==
  /\ guard = NotCalled
  /\ gl = NotCalled
  /\ vs = NotCalled
  /\ DeviceIdle
  /\ pc = "call"
  /\ line_buf \in UNION { [1 .. n -> Vertices] : n \in 0 .. MaxLen }
  /\ past_end \in (IF Len(line_buf) % 2 = 1 THEN Vertices ELSE {VA})
  /\ uniform \in Uniforms
  /\ ExactInputs(line_buf, past_end, uniform)
  /\ quad_buf = [k \in 0 .. MemLen - 1 |-> Stale]
  /\ quad_buf_len \in {0, StaleCount}
  /\ quad_buf_cap \in Capacities(Len(line_buf))
  /\ diag = FALSE
  /\ writes = {}
  /\ reads = {}
  /\ old_quad_buf = quad_buf
  /\ old_quad_buf_len = quad_buf_len

CpuLinesExpand ==
  /\ pc = "call"
  /\ \E r \in { cpu_lines_expand(line_buf, past_end, Len(line_buf), quad_buf,
                                 quad_buf_len, quad_buf_cap, uniform) } :
         /\ quad_buf' = r.quad_buf
         /\ quad_buf_len' = r.quad_buf_len
         /\ diag' = r.diag
         /\ writes' = r.writes
         /\ reads' = r.reads
  /\ old_quad_buf' = quad_buf
  /\ old_quad_buf_len' = quad_buf_len
  /\ pc' = "done"
  /\ UNCHANGED <<line_buf, past_end, uniform, quad_buf_cap, guard, gl, vs>>
  /\ UNCHANGED device_vars

Spec == Init /\ [][CpuLinesExpand]_vars

---------------------------------------------------------------------------
(* The frames of the CPU backend: cpu_lines_update calls cpu_lines_expand    *)
(* once a frame, every time on the device's quad_buf, with a count variable  *)
(* of its own that holds 0 (line 282) and with the capacity MAX_VERTS (line  *)
(* 283), for the line buffer and the uniforms of the frame.  Line buffers    *)
(* hold whole segments (generate_line_data adds vertices two at a time).     *)
(* Of the memory of quad_buf the first FrameMemLen records are followed.     *)

\* #define MAX_VERTS 3 * 12 * 1024 * 1024
MAX_VERTS == 3 * 12 * 1024 * 1024

FrameMaxLen == 4

FrameMemLen == 3 * FrameMaxLen + 3

\* the line buffers of the frames: none, one segment in either direction, a
\* zero-length segment (VA, VA) followed by a proper one, two proper segments
FrameBuffers ==
  { b \in { <<>>, <<VA, VD>>, <<VD, VA>>, <<VA, VA, VA, VD>>, <<VA, VD, VD, VA>> } :
      Len(b) <= FrameMaxLen }

FrameUniforms ==
  { Uniform(MatIdentity, 800, 600, R(2), R(2)),
    Uniform(MatPersp, 800, 600, R(1), R(2)) }

\* cpu_lines_update is about to make the call of line 283 of the first frame
InitFrames ==
  /\ guard = NotCalled
  /\ gl = NotCalled
  /\ vs = NotCalled
  /\ DeviceIdle
  /\ pc = "call"
  /\ line_buf \in FrameBuffers
  /\ past_end = VA
  /\ uniform \in FrameUniforms
  /\ ExactInputs(line_buf, past_end, uniform)
  /\ quad_buf = [k \in 0 .. FrameMemLen - 1 |-> Stale]
  /\ quad_buf_len = 0
  /\ quad_buf_cap = MAX_VERTS
  /\ diag = FALSE
  /\ writes = {}
  /\ reads = {}
  /\ old_quad_buf = quad_buf
  /\ old_quad_buf_len = quad_buf_len

\* the next frame: the caller has filled the line buffer and the uniforms,
\* cpu_lines_update has declared its count (line 282: uint32_t quad_buf_len = 0)
\* and is about to call cpu_lines_expand on the quad_buf the last call left
NextFrame ==
  /\ pc = "done"
  /\ pc' = "call"
  /\ line_buf' \in FrameBuffers
  /\ uniform' \in FrameUniforms
  /\ ExactInputs(line_buf', past_end, uniform')
  /\ quad_buf_len' = 0
  /\ quad_buf_cap' = MAX_VERTS
  /\ diag' = FALSE
  /\ writes' = {}
  /\ reads' = {}
  /\ old_quad_buf' = quad_buf
  /\ old_quad_buf_len' = 0
  /\ UNCHANGED <<past_end, quad_buf, guard, gl, vs>>
  /\ UNCHANGED device_vars

SpecFrames == InitFrames /\ [][CpuLinesExpand \/ NextFrame]_vars

---------------------------------------------------------------------------
(* The capacity check of line 30 on its own, for operands of the whole      *)
(* range the model's integers reach: lengths around the first length whose  *)
(* product with 3 no longer fits 32 bits.                                   *)

\* the largest int32_t, the type of n_elems
INT32_MAX == (Limb \div 2 - 1) * Limb + (Limb - 1)

GuardSpan == 3

\* the lengths tried: the smallest, those around the least length whose
\* product with 3 is 2^32 or more, and the largest
GuardLengths ==
  (0 .. GuardSpan)
    \cup (((Limb - 1) \div 3) * Limb + (Limb - 1) \div 3
            .. ((Limb - 1) \div 3) * Limb + (Limb - 1) \div 3 + 1 + GuardSpan)
    \cup {INT32_MAX}

GuardCapacities == (0 .. 3 * GuardSpan) \cup {MAX_VERTS, INT32_MAX}

\* no call of cpu_lines_expand is in progress
ExpanderIdle ==
  /\ pc = "idle"
  /\ line_buf = <<>>
  /\ past_end = VA
  /\ uniform = Uniform(MatIdentity, 800, 600, R(2), R(2))
  /\ quad_buf = <<>>
  /\ quad_buf_len = 0
  /\ quad_buf_cap = 0
  /\ diag = FALSE
  /\ writes = {}
  /\ reads = {}
  /\ old_quad_buf = <<>>
  /\ old_quad_buf_len = 0

InitGuard ==
  /\ ExpanderIdle
  /\ gl = NotCalled
  /\ vs = NotCalled
  /\ DeviceIdle
  /\ guard \in [at : {"call"}, line_buf_len : GuardLengths,
                quad_buf_cap : GuardCapacities, rejected : {FALSE}]

\* lines 30-34: the comparison and the early return
CapacityCheck ==
  /\ guard.at = "call"
  /\ guard' = [guard EXCEPT !.at = "done",
                            !.rejected = NotEnoughSpace(guard.line_buf_len, guard.quad_buf_cap)]
  /\ UNCHANGED expander_vars
  /\ UNCHANGED <<gl, vs>>
  /\ UNCHANGED device_vars

SpecGuard == InitGuard /\ [][CapacityCheck]_vars

---------------------------------------------------------------------------
(* gl_lines_render, one iteration of its loop at a time.  The loop reads    *)
(* only the widths of the vertices, so vertex_data is kept as the sequence  *)
(* of widths (C index i is vertex_data[i + 1]).                             *)

GlMaxLen == 4

\* the widths of the vertices: two finite ones and NaN, which differs from itself
GlWidths == {R(1), R(2), NaN}

GlVertexData == UNION { [1 .. n -> GlWidths] : n \in 0 .. GlMaxLen }

\* cur_width != next_width on floats
FNe(a, b) == IsNaN(a) \/ IsNaN(b) \/ a # b

\* lines 157-158: the locals before the loop
GlRenderStart(vertex_data) ==
  [at |-> "loop", vertex_data |-> vertex_data, vertex_data_len |-> Len(vertex_data),
   i |-> 0, cur_count |-> 1, offset |-> 0, draws |-> <<>>]

\* line 159: i < device->vertex_data_len - 1
GlLoopCond(st) == st.i < st.vertex_data_len - 1

\* lines 165-168: the last iteration counts the last vertex in
GlCountAtLast(st) ==
  IF st.i = st.vertex_data_len - 2 THEN st.cur_count + 1 ELSE st.cur_count

\* an iteration that flushes at the last index without counting the last vertex
GlRenderIterLastLeftOut(st) ==
  IF FNe(st.vertex_data[st.i + 1], st.vertex_data[st.i + 2]) \/ st.i = st.vertex_data_len - 2
  THEN [st EXCEPT !.draws = Append(st.draws, [width |-> st.vertex_data[st.i + 1],
                                              first |-> st.offset,
                                              count |-> st.cur_count]),
                  !.offset = st.offset + st.cur_count,
                  !.cur_count = 1,
                  !.i = st.i + 1]
  ELSE [st EXCEPT !.cur_count = st.cur_count + 1, !.i = st.i + 1]

\* lines 160-179 and the ++i of line 159: one iteration of the loop
GlRenderIter(st) ==
  IF FNe(st.vertex_data[st.i + 1], st.vertex_data[st.i + 2]) \/ st.i = st.vertex_data_len - 2
  THEN [st EXCEPT !.draws = Append(st.draws, [width |-> st.vertex_data[st.i + 1],
                                              first |-> st.offset,
                                              count |-> GlCountAtLast(st)]),
                  !.offset = st.offset + GlCountAtLast(st),
                  !.cur_count = 1,
                  !.i = st.i + 1]
  ELSE [st EXCEPT !.cur_count = GlCountAtLast(st) + 1, !.i = st.i + 1]

InitGl ==
  /\ ExpanderIdle
  /\ guard = NotCalled
  /\ vs = NotCalled
  /\ DeviceIdle
  /\ gl \in { GlRenderStart(vd) : vd \in GlVertexData }

\* the body of the loop runs once
GlLoopIteration ==
  /\ gl.at = "loop"
  /\ GlLoopCond(gl)
  /\ gl' = GlRenderIter(gl)
  /\ UNCHANGED expander_vars
  /\ UNCHANGED <<guard, vs>>
  /\ UNCHANGED device_vars

\* the loop condition fails: gl_lines_render returns
GlLoopExit ==
  /\ gl.at = "loop"
  /\ ~GlLoopCond(gl)
  /\ gl' = [gl EXCEPT !.at = "done"]
  /\ UNCHANGED expander_vars
  /\ UNCHANGED <<guard, vs>>
  /\ UNCHANGED device_vars

SpecGl == InitGl /\ [][GlLoopIteration \/ GlLoopExit]_vars

---------------------------------------------------------------------------
(* The devices of the backends and the calls of their public functions:     *)
(* init_device, then update and render frame after frame, and term_device.  *)
(* Each function is an operator on the device record, named as in the       *)
(* source, and an action that applies it.  A uniform_data_t* is "NULL" or   *)
(* the name of one of the caller's uniform blocks.  main.c sets up the       *)
(* geometry-shader engine alone (line 217), whose update and render have the *)
(* signatures of its function pointers; the other backends are called as     *)
(* their headers declare them, update with a uniform_data argument.          *)

\* sizeof(vertex_t) of main.c: pos and width (4 floats), col (msh_vec3_t, 3 floats)
SizeofVertex == 28

\* sizeof of a vertex_t whose col has the component w that cpu_lines_expand
\* reads (line 93): pos and width, col of 4 floats.  cpu_lines.h compiles
\* against such a vertex_t only.
SizeofVertexCol4 == 32

\* sizeof(cpu_lines_vertex_t): three msh_vec4_t
SizeofCpuLinesVertex == 48

\* main.c: uint32_t line_buf_cap = MAX_VERTS / 3
LineBufCap == MAX_VERTS \div 3

\* the engines of main.c 213-219 and the backend of ssbo_lines.h
Backends == {"gl", "cpu", "geom_shdr", "tex_buffer", "instancing", "ssbo"}

UniformPtrs == {"u1", "u2"}

\* the uniform block a pointer refers to
UniformAt(p) ==
  IF p = "u1" THEN Uniform(MatIdentity, 800, 600, R(2), R(2))
  ELSE Uniform(MatPersp, 800, 600, R(1), R(2))

\* what update is called with: line buffers of whole segments (none, one
\* segment, two segments) with their lengths,
\* and a full line buffer of LineBufCap vertices.  The vertices of the full
\* buffer are not enumerated (data is empty): cpu_lines_expand returns at its
\* capacity check before reading any, and the other updates hand the pointer
\* to glNamedBufferSubData without reading it.
UpdateInputs ==
  { [data |-> b, n_elems |-> Len(b)] :
      b \in { d \in { <<>>, <<VA, VD>>, <<VA, VD, VD, VA>> } : Len(d) <= FrameMaxLen } }
    \cup { [data |-> <<>>, n_elems |-> LineBufCap] }

\* malloc and memset( device, 0, sizeof ) of every init_device
ZeroedDevice ==
  [live |-> TRUE, uniform_data |-> "NULL", vertex_data |-> <<>>, vertex_data_len |-> 0,
   quad_buf_bytes |-> 0]

DrawCall(mode, first, count, instances) ==
  [mode |-> mode, first |-> first, count |-> count, instances |-> instances]

\* gl_lines.h ---------------------------------------------------------------

\* lines 135-141
gl_lines_update(dev, data, n_elems, elem_size, uniform_data) ==
  [device |-> [dev EXCEPT !.uniform_data = uniform_data,
                          !.vertex_data = [i \in 1 .. Len(data) |-> data[i].width],
                          !.vertex_data_len = n_elems],
   uploaded |-> n_elems * elem_size,
   ret |-> n_elems]

RECURSIVE GlRenderLoop(_)
\* lines 159-180: the loop run to its end
GlRenderLoop(st) == IF GlLoopCond(st) THEN GlRenderLoop(GlRenderIter(st)) ELSE st

\* lines 151-180: the pointer dereferenced and the draw calls issued
gl_lines_render(dev, count) ==
  [uniform_read |-> dev.uniform_data,
   draws |-> [k \in 1 .. Len(GlRenderLoop(GlRenderStart(dev.vertex_data)).draws) |->
                DrawCall("GL_LINES", GlRenderLoop(GlRenderStart(dev.vertex_data)).draws[k].first,
                         GlRenderLoop(GlRenderStart(dev.vertex_data)).draws[k].count, 1)]]

\* geometry_shader_lines.h --------------------------------------------------

\* lines 240-242: no uniform_data parameter, nothing stored in the device
geom_shdr_lines_update(dev, n_elems, elem_size) ==
  [device |-> dev, uploaded |-> n_elems * elem_size, ret |-> n_elems]

\* lines 248-257: the uniforms are set from the arguments mvp and viewport
geom_shdr_lines_render(dev, count) ==
  [uniform_read |-> "args", draws |-> << DrawCall("GL_LINES", 0, count, 1) >>]

\* cpu_lines.h --------------------------------------------------------------

\* an upload of the whole vertex buffer, whatever was written
UploadWholeBuffer(len) == MAX_VERTS * SizeofCpuLinesVertex

\* line 286: quad_buf_len * sizeof(cpu_lines_vertex_t)
UploadBytes(len) == len * SizeofCpuLinesVertex

\* lines 276-288; expanded is what cpu_lines_expand returned for the local
\* count of line 282 and the capacity MAX_VERTS
cpu_lines_update(dev, expanded, uniform_data) ==
  [device |-> [dev EXCEPT !.uniform_data = uniform_data],
   uploaded |-> UploadBytes(expanded.quad_buf_len),
   ret |-> expanded.quad_buf_len]

\* lines 297-300
cpu_lines_render(dev, count) ==
  [uniform_read |-> dev.uniform_data,
   draws |-> << DrawCall("GL_TRIANGLES", 0, count, 1) >>]

\* instancing_lines.h -------------------------------------------------------

\* an update that uploads the data and leaves the device's pointer as it was
InstancingLinesUpdateUniformKept(dev, n_elems, elem_size, uniform_data) ==
  [device |-> dev, uploaded |-> n_elems * elem_size, ret |-> n_elems]

\* lines 243-245
instancing_lines_update(dev, n_elems, elem_size, uniform_data) ==
  [device |-> [dev EXCEPT !.uniform_data = uniform_data],
   uploaded |-> n_elems * elem_size,
   ret |-> n_elems]

\* lines 252-258: 6 indices per instance, count >> 1 instances
instancing_lines_render(dev, count) ==
  [uniform_read |-> dev.uniform_data,
   draws |-> << DrawCall("GL_TRIANGLES", 0, 6, count \div 2) >>]

\* tex_buffer_lines.h -------------------------------------------------------

\* lines 194-197
tex_buffer_lines_update(dev, n_elems, elem_size, uniform_data) ==
  [device |-> [dev EXCEPT !.uniform_data = uniform_data],
   uploaded |-> n_elems * elem_size,
   ret |-> n_elems]

\* lines 206-215
tex_buffer_lines_render(dev, count) ==
  [uniform_read |-> dev.uniform_data,
   draws |-> << DrawCall("GL_TRIANGLES", 0, 3 * count, 1) >>]

\* ssbo_lines.h -------------------------------------------------------------

\* lines 185-189
ssbo_lines_update(dev, n_elems, elem_size, uniform_data) ==
  [device |-> [dev EXCEPT !.uniform_data = uniform_data],
   uploaded |-> n_elems * elem_size,
   ret |-> n_elems]

\* lines 198-204
ssbo_lines_render(dev, count) ==
  [uniform_read |-> dev.uniform_data,
   draws |-> << DrawCall("GL_TRIANGLES", 0, 3 * count, 1) >>]

\* the calls ----------------------------------------------------------------

\* the caller has picked one of the backends; no device exists yet
InitDevices ==
  /\ ExpanderIdle
  /\ guard = NotCalled
  /\ gl = NotCalled
  /\ vs = NotCalled
  /\ backend \in Backends
  /\ handle = "NULL"
  /\ device = NoDevice
  /\ latest = "NULL"
  /\ call = NoCall
  /\ gpu = [uploaded |-> 0, draws |-> <<>>]

\* engine->device = init_device(): the caller's pointer refers to record rec
Created(rec) ==
  /\ handle = "NULL"
  /\ ~call.fault
  /\ handle' = "device"
  /\ device' = rec
  /\ latest' = "NULL"
  /\ call' = [NoCall EXCEPT !.op = "init"]
  /\ gpu' = [uploaded |-> 0, draws |-> <<>>]
  /\ UNCHANGED <<backend, guard, gl, vs>>

\* a call on a device in use is made through a pointer to a device whose GL
\* objects exist, by a process that has not crashed
InUse == handle = "device" /\ device.live /\ call.op # "term" /\ ~call.fault

\* update returned r (device, uploaded, ret) for the input inp; p is the
\* uniform_data pointer the most recent update was given
Updated(r, inp, p) ==
  /\ device' = r.device
  /\ latest' = p
  /\ call' = [call EXCEPT !.op = "update", !.n_elems = inp.n_elems, !.elem_count = r.ret]
  /\ gpu' = [gpu EXCEPT !.uploaded = r.uploaded]
  /\ UNCHANGED <<backend, handle, guard, gl, vs>>

\* render(device, elem_count) returned r (uniform_read, draws); reading
\* uniform_data->... through a null pointer is undefined: the process faults
Rendered(r) ==
  /\ call' = [call EXCEPT !.op = "render", !.uniform_read = r.uniform_read,
                           !.fault = (r.uniform_read = "NULL")]
  /\ gpu' = IF r.uniform_read = "NULL" THEN gpu ELSE [gpu EXCEPT !.draws = r.draws]
  /\ UNCHANGED <<backend, handle, device, latest, guard, gl, vs>>

\* term_device( &engine->device ) returned r (device, handle)
Terminated(r) ==
  /\ device' = r.device
  /\ handle' = r.handle
  /\ call' = [call EXCEPT !.op = "term"]
  /\ UNCHANGED <<backend, latest, gpu, guard, gl, vs>>

\* gl_lines.h 41-42, 116: malloc, memset, return device
GlLinesInitDevice ==
  /\ backend = "gl"
  /\ Created(ZeroedDevice)
  /\ UNCHANGED expander_vars

\* the loop of gl_lines_render reads every vertex, so only buffers whose
\* vertices are enumerated are handed to this backend
GlLinesUpdate ==
  /\ backend = "gl"
  /\ InUse
  /\ \E inp \in UpdateInputs, p \in UniformPtrs :
        /\ inp.n_elems = Len(inp.data)
        /\ Updated(gl_lines_update(device, inp.data, inp.n_elems, SizeofVertex, p), inp, p)
  /\ UNCHANGED expander_vars

GlLinesRender ==
  /\ backend = "gl"
  /\ InUse
  /\ Rendered(gl_lines_render(device, call.elem_count))
  /\ UNCHANGED expander_vars

\* gl_lines.h 126-127: free( device ); *device_in = NULL
GlLinesTermDevice ==
  /\ backend = "gl"
  /\ InUse
  /\ Terminated([device |-> NoDevice, handle |-> "NULL"])
  /\ UNCHANGED expander_vars

\* cpu_lines.h 156-158: malloc, memset and
\* quad_buf = malloc( MAX_VERTS * sizeof(vertex_t) ), with the vertex_t
\* cpu_lines.h compiles against; of the memory of quad_buf the first
\* FrameMemLen records are followed
CpuLinesInitDevice ==
  /\ backend = "cpu"
  /\ Created([ZeroedDevice EXCEPT !.quad_buf_bytes = MAX_VERTS * SizeofVertexCol4])
  /\ pc' = "idle"
  /\ quad_buf' = [k \in 0 .. FrameMemLen - 1 |-> Stale]
  /\ quad_buf_cap' = MAX_VERTS
  /\ quad_buf_len' = 0
  /\ old_quad_buf' = quad_buf'
  /\ old_quad_buf_len' = 0
  /\ diag' = FALSE
  /\ writes' = {}
  /\ reads' = {}
  /\ UNCHANGED <<line_buf, past_end, uniform>>

\* lines 269-289, the call of cpu_lines_expand of line 283 included
CpuLinesUpdate ==
  /\ backend = "cpu"
  /\ InUse
  /\ \E inp \in UpdateInputs, p \in UniformPtrs :
        /\ ExactInputs(inp.data, past_end, UniformAt(p))
        /\ \E e \in { cpu_lines_expand(inp.data, past_end, inp.n_elems, quad_buf, 0,
                                        MAX_VERTS, UniformAt(p)) } :
              /\ Updated(cpu_lines_update(device, e, p), inp, p)
              /\ line_buf' = inp.data
              /\ uniform' = UniformAt(p)
              /\ quad_buf' = e.quad_buf
              /\ quad_buf_len' = e.quad_buf_len
              /\ diag' = e.diag
              /\ writes' = e.writes
              /\ reads' = e.reads
  /\ pc' = "done"
  /\ quad_buf_cap' = MAX_VERTS
  /\ old_quad_buf' = quad_buf
  /\ old_quad_buf_len' = 0
  /\ UNCHANGED past_end

CpuLinesRender ==
  /\ backend = "cpu"
  /\ InUse
  /\ Rendered(cpu_lines_render(device, call.elem_count))
  /\ UNCHANGED expander_vars

\* cpu_lines.h 264-266: free( device->quad_buf ); free( device ); *device_in = NULL
CpuLinesTermDevice ==
  /\ backend = "cpu"
  /\ InUse
  /\ Terminated([device |-> NoDevice, handle |-> "NULL"])
  /\ pc' = "idle"
  /\ quad_buf' = <<>>
  /\ old_quad_buf' = <<>>
  /\ UNCHANGED <<line_buf, past_end, uniform, quad_buf_len, quad_buf_cap, diag, writes,
                 reads, old_quad_buf_len>>

\* geometry_shader_lines.h 63, 234: malloc, return device; the record has no
\* uniform_data member
GeomShdrLinesInitDevice ==
  /\ backend = "geom_shdr"
  /\ Created([ZeroedDevice EXCEPT !.uniform_data = "absent"])
  /\ UNCHANGED expander_vars

\* main.c 276: update(active_engine, line_buf, line_buf_len, sizeof(vertex_t))
GeomShdrLinesUpdate ==
  /\ backend = "geom_shdr"
  /\ InUse
  /\ \E inp \in UpdateInputs :
        Updated(geom_shdr_lines_update(device, inp.n_elems, SizeofVertex), inp, latest)
  /\ UNCHANGED expander_vars

\* main.c 277: render(active_engine, elem_count, mvp, viewport)
GeomShdrLinesRender ==
  /\ backend = "geom_shdr"
  /\ InUse
  /\ Rendered(geom_shdr_lines_render(device, call.elem_count))
  /\ UNCHANGED expander_vars

\* instancing_lines.h 218-222: malloc, memset, return device
InstancingLinesInitDevice ==
  /\ backend = "instancing"
  /\ Created(ZeroedDevice)
  /\ UNCHANGED expander_vars

InstancingLinesUpdate ==
  /\ backend = "instancing"
  /\ InUse
  /\ \E inp \in UpdateInputs, p \in UniformPtrs :
        Updated(instancing_lines_update(device, inp.n_elems, SizeofVertex, p), inp, p)
  /\ UNCHANGED expander_vars

InstancingLinesRender ==
  /\ backend = "instancing"
  /\ InUse
  /\ Rendered(instancing_lines_render(device, call.elem_count))
  /\ UNCHANGED expander_vars

\* instancing_lines.h 234-235: free(device); *device_in = NULL
InstancingLinesTermDevice ==
  /\ backend = "instancing"
  /\ InUse
  /\ Terminated([device |-> NoDevice, handle |-> "NULL"])
  /\ UNCHANGED expander_vars

\* tex_buffer_lines.h 39-40, 177: malloc, memset, return device
TexBufferLinesInitDevice ==
  /\ backend = "tex_buffer"
  /\ Created(ZeroedDevice)
  /\ UNCHANGED expander_vars

TexBufferLinesUpdate ==
  /\ backend = "tex_buffer"
  /\ InUse
  /\ \E inp \in UpdateInputs, p \in UniformPtrs :
        Updated(tex_buffer_lines_update(device, inp.n_elems, SizeofVertex, p), inp, p)
  /\ UNCHANGED expander_vars

TexBufferLinesRender ==
  /\ backend = "tex_buffer"
  /\ InUse
  /\ Rendered(tex_buffer_lines_render(device, call.elem_count))
  /\ UNCHANGED expander_vars

\* tex_buffer_lines.h 183-187: the GL objects are deleted, nothing else: the
\* record and the caller's pointer stay as they are
TexBufferLinesTermDevice ==
  /\ backend = "tex_buffer"
  /\ InUse
  /\ Terminated([device |-> device, handle |-> handle])
  /\ UNCHANGED expander_vars

\* ssbo_lines.h 34-35, 166: malloc, memset, return device
SsboLinesInitDevice ==
  /\ backend = "ssbo"
  /\ Created(ZeroedDevice)
  /\ UNCHANGED expander_vars

SsboLinesUpdate ==
  /\ backend = "ssbo"
  /\ InUse
  /\ \E inp \in UpdateInputs, p \in UniformPtrs :
        Updated(ssbo_lines_update(device, inp.n_elems, SizeofVertex, p), inp, p)
  /\ UNCHANGED expander_vars

SsboLinesRender ==
  /\ backend = "ssbo"
  /\ InUse
  /\ Rendered(ssbo_lines_render(device, call.elem_count))
  /\ UNCHANGED expander_vars

\* ssbo_lines.h 173-176: the GL objects are deleted, nothing else: the record
\* and the caller's pointer stay as they are
SsboLinesTermDevice ==
  /\ backend = "ssbo"
  /\ InUse
  /\ Terminated([device |-> device, handle |-> handle])
  /\ UNCHANGED expander_vars

SpecDevices ==
  InitDevices /\
    [][ \/ GlLinesInitDevice \/ GlLinesUpdate \/ GlLinesRender \/ GlLinesTermDevice
        \/ CpuLinesInitDevice \/ CpuLinesUpdate \/ CpuLinesRender \/ CpuLinesTermDevice
        \/ GeomShdrLinesInitDevice \/ GeomShdrLinesUpdate \/ GeomShdrLinesRender
        \/ InstancingLinesInitDevice \/ InstancingLinesUpdate
        \/ InstancingLinesRender \/ InstancingLinesTermDevice
        \/ TexBufferLinesInitDevice \/ TexBufferLinesUpdate
        \/ TexBufferLinesRender \/ TexBufferLinesTermDevice
        \/ SsboLinesInitDevice \/ SsboLinesUpdate \/ SsboLinesRender
        \/ SsboLinesTermDevice ]_vars

---------------------------------------------------------------------------
(* The vertex shaders of the texture-buffer, SSBO and instancing backends,  *)
(* one invocation at a time.  GLSL floats are the floats of the model; the  *)
(* built-ins are computed as GLSL defines them.  The line data is the array  *)
(* of floats update uploads: n_elems * elem_size bytes, elem_size being the  *)
(* sizeof(vertex_t) of the build.                                            *)

\* v / s on a vec2
GlslDiv(v, s) == msh_vec2(FDiv(v.x, s), FDiv(v.y, s))

\* max(x, y): y if x < y, otherwise x
GlslMax(x, y) == IF FLt(x, y) THEN y ELSE x

GlslLength(v) == FSqrt(FAdd(FMul(v.x, v.x), FMul(v.y, v.y)))

GlslNormalize(v) == GlslDiv(v, GlslLength(v))

\* tex_buffer_lines.h lines 108-115: zw_part, dir_y, dir_x and gl_Position;
\* quad_pos is <<x, y>>
VsPosition(ndc_pos_a, line_vector, normal_a, normal_b, extension, clip_pos_a, clip_pos_b, quad_pos) ==
  msh_vec4(FMul(FAdd(FAdd(ndc_pos_a.x, FAdd(FMul(R(quad_pos[1]), line_vector.x),
                                            FMul(R(2 * quad_pos[1] - 1), extension.x))),
                     FMul(R(quad_pos[2]), FAdd(FMul(R(1 - quad_pos[1]), normal_a.x),
                                               FMul(R(quad_pos[1]), normal_b.x)))),
                FAdd(FMul(R(1 - quad_pos[1]), clip_pos_a.w), FMul(R(quad_pos[1]), clip_pos_b.w))),
           FMul(FAdd(FAdd(ndc_pos_a.y, FAdd(FMul(R(quad_pos[1]), line_vector.y),
                                            FMul(R(2 * quad_pos[1] - 1), extension.y))),
                     FMul(R(quad_pos[2]), FAdd(FMul(R(1 - quad_pos[1]), normal_a.y),
                                               FMul(R(quad_pos[1]), normal_b.y)))),
                FAdd(FMul(R(1 - quad_pos[1]), clip_pos_a.w), FMul(R(quad_pos[1]), clip_pos_b.w))),
           FAdd(FMul(R(1 - quad_pos[1]), clip_pos_a.z), FMul(R(quad_pos[1]), clip_pos_b.z)),
           FAdd(FMul(R(1 - quad_pos[1]), clip_pos_a.w), FMul(R(quad_pos[1]), clip_pos_b.w)))

\* lines 91, 96-99: normal, normal_a, normal_b, extension
VsFromWidths(clip_pos_a, clip_pos_b, ndc_pos_a, line_vector, dir, line_width_a, line_width_b, u, quad_pos) ==
  VsPosition(ndc_pos_a, line_vector,
             msh_vec2_mul(msh_vec2(FDiv(line_width_a, u.viewport_size.x),
                                   FDiv(line_width_a, u.viewport_size.y)),
                          msh_vec2(FNeg(dir.y), dir.x)),
             msh_vec2_mul(msh_vec2(FDiv(line_width_b, u.viewport_size.x),
                                   FDiv(line_width_b, u.viewport_size.y)),
                          msh_vec2(FNeg(dir.y), dir.x)),
             msh_vec2_mul(msh_vec2(FDiv(u.aa_radius.y, u.viewport_size.x),
                                   FDiv(u.aa_radius.y, u.viewport_size.y)), dir),
             clip_pos_a, clip_pos_b, quad_pos)

\* lines 60-62, 87-94: line_vector, dir, line_width_a, line_width_b.  The
\* texture-buffer and SSBO shaders take max( width, 1.0 ) (tex_buffer_lines.h
\* 93-94, ssbo_lines.h 87-88), the instancing shader max( 1.0, width )
\* (instancing_lines.h 86-87).
VsFromNdc(shader, a, b, clip_pos_a, clip_pos_b, ndc_pos_a, ndc_pos_b, u, quad_pos) ==
  VsFromWidths(clip_pos_a, clip_pos_b, ndc_pos_a,
               msh_vec2(FSub(ndc_pos_b.x, ndc_pos_a.x), FSub(ndc_pos_b.y, ndc_pos_a.y)),
               GlslNormalize(msh_vec2(FSub(ndc_pos_b.x, ndc_pos_a.x),
                                      FMul(FSub(ndc_pos_b.y, ndc_pos_a.y),
                                           FDiv(u.viewport_size.y, u.viewport_size.x)))),
               FAdd(IF shader = "instancing" THEN GlslMax(R(1), a.width)
                    ELSE GlslMax(a.width, R(1)), u.aa_radius.x),
               FAdd(IF shader = "instancing" THEN GlslMax(R(1), b.width)
                    ELSE GlslMax(b.width, R(1)), u.aa_radius.x),
               u, quad_pos)

\* lines 84-85: the perspective divide
VsFromClip(shader, a, b, clip_pos_a, clip_pos_b, u, quad_pos) ==
  VsFromNdc(shader, a, b, clip_pos_a, clip_pos_b,
            GlslDiv(msh_vec2(clip_pos_a.x, clip_pos_a.y), clip_pos_a.w),
            GlslDiv(msh_vec2(clip_pos_b.x, clip_pos_b.y), clip_pos_b.w),
            u, quad_pos)

\* lines 81-115: gl_Position for the line vertices a and b and the corner
\* quad_pos; the SSBO shader (ssbo_lines.h 75-109) and the instancing shader
\* (instancing_lines.h 74-103) compute it with the same statements but for
\* the order of the operands of max
VsMain(shader, a, b, quad_pos, u) ==
  VsFromClip(shader, a, b,
             msh_mat4_vec4_mul(u.mvp, msh_vec4(a.pos.x, a.pos.y, a.pos.z, R(1))),
             msh_mat4_vec4_mul(u.mvp, msh_vec4(b.pos.x, b.pos.y, b.pos.z, R(1))),
             u, quad_pos)

\* lines 69-70: ivec2 quad[6]
VsQuad == << <<0, -1>>, <<0, 1>>, <<1, 1>>, <<0, -1>>, <<1, 1>>, <<1, -1>> >>

\* an addressing of consecutive vertices, as of a line strip
LineId0Strip(gl_VertexID) == gl_VertexID \div 6

\* line 66: int line_id_0 = (gl_VertexID / 6) * 2
LineId0(gl_VertexID) == (gl_VertexID \div 6) * 2

\* line 67
LineId1(gl_VertexID) == LineId0(gl_VertexID) + 1

\* line 68
QuadId(gl_VertexID) == gl_VertexID % 6

\* the floats of a vertex_t in memory: pos, width, col; main.c's vertex_t
\* has no col.w
VertexFloats(v, elem_size) ==
  <<v.pos.x, v.pos.y, v.pos.z, v.width, v.col.x, v.col.y, v.col.z>>
    \o (IF elem_size = SizeofVertex THEN <<>> ELSE <<v.col.w>>)

RECURSIVE UploadedFloats(_, _)
\* update: glNamedBufferSubData( buffer, 0, n_elems*elem_size, data ), the
\* floats of the buffer from its start
UploadedFloats(data, elem_size) ==
  IF data = <<>> THEN <<>>
  ELSE VertexFloats(Head(data), elem_size) \o UploadedFloats(Tail(data), elem_size)

\* glNamedBufferSubData( buffer, 0, n_elems*elem_size, data ) of the updates
\* (tex_buffer_lines.h 196, ssbo_lines.h 187, instancing_lines.h 244): the
\* floats of data replace the first floats of the storage, every float after
\* them keeps what it held
glNamedBufferSubData(storage, data, elem_size) ==
  [j \in 1 .. Len(storage) |->
     IF j <= Len(data) * (elem_size \div 4) THEN UploadedFloats(data, elem_size)[j]
     ELSE storage[j]]

\* the two vec4 a shader gets from float number at of the storage on:
\* pos_width and color.  Texels 2k and 2k + 1 of the GL_RGBA32F buffer texture
\* (tex_buffer_lines.h 74-79) and element k of the std430 array of
\* struct { vec4; vec4 } (ssbo_lines.h 71-73) start at float 8k, whatever
\* elem_size is; the attributes of instance i (instancing_lines.h 172-187)
\* start at the floats of vertices 2i and 2i + 1.  The storage is
\* MAX_VERTS * sizeof(vertex_t) bytes, so every fetch of a draw lies in it.
VsFetch(storage, at) ==
  Vertex(storage[at + 1], storage[at + 2], storage[at + 3], storage[at + 4],
         storage[at + 5], storage[at + 6], storage[at + 7], storage[at + 8])

\* what an invocation returns: the line vertices it addressed and got, the
\* number of floats of the buffer it read up to, its corner and gl_Position
VsOut(shader, line_id_0, line_id_1, a, b, read_to, quad_pos, u) ==
  [line_id_0 |-> line_id_0, line_id_1 |-> line_id_1, a |-> a, b |-> b,
   read_to |-> read_to, quad_pos |-> quad_pos,
   gl_Position |-> VsMain(shader, a, b, quad_pos, u)]

\* tex_buffer_lines.h 58-116: one invocation of the vertex shader
tex_buffer_lines_vs(storage, gl_VertexID, u) ==
  VsOut("tex_buffer", LineId0(gl_VertexID), LineId1(gl_VertexID),
        VsFetch(storage, 8 * LineId0(gl_VertexID)),
        VsFetch(storage, 8 * LineId1(gl_VertexID)),
        8 * LineId1(gl_VertexID) + 8,
        VsQuad[QuadId(gl_VertexID) + 1], u)

\* ssbo_lines.h 57-110: one invocation of the vertex shader
ssbo_lines_vs(storage, gl_VertexID, u) ==
  VsOut("ssbo", LineId0(gl_VertexID), LineId1(gl_VertexID),
        VsFetch(storage, 8 * LineId0(gl_VertexID)),
        VsFetch(storage, 8 * LineId1(gl_VertexID)),
        8 * LineId1(gl_VertexID) + 8,
        VsQuad[QuadId(gl_VertexID) + 1], u)

\* instancing_lines.h 194-198: float quad[] as (x, y) and uint16_t ind[]
InstancingQuad == << <<0, -1>>, <<0, 1>>, <<1, 1>>, <<1, -1>> >>

InstancingInd == <<0, 1, 2, 0, 2, 3>>

\* instancing_lines.h 63-104 with the attribute setup of 172-187: invocation
\* for index number e (0..5) of instance gl_InstanceID; the per-instance
\* attributes advance by 2 * sizeof(vertex_t), those of the second vertex
\* lie sizeof(vertex_t) further, and each is 4 floats
instancing_lines_vs(storage, elem_size, gl_InstanceID, e, u) ==
  VsOut("instancing", 2 * gl_InstanceID, 2 * gl_InstanceID + 1,
        VsFetch(storage, (elem_size \div 4) * (2 * gl_InstanceID)),
        VsFetch(storage, (elem_size \div 4) * (2 * gl_InstanceID + 1)),
        (elem_size \div 4) * (2 * gl_InstanceID + 1) + 8,
        InstancingQuad[InstancingInd[e + 1] + 1], u)

\* the line data of an update: none, a lone vertex, one segment with
\* endpoints of different width, one segment whose second endpoint has a
\* width that is not a number, two segments
ShaderBuffers ==
  { b \in { <<>>, <<VA>>, <<VA, VD>>, <<VA, [VB EXCEPT !.width = NaN]>>,
            <<VA, VD, VC, VA>>, <<VA, VB, VA, VC>> } : Len(b) <= FrameMaxLen }

\* the updates of one behaviour
ShaderFrames == 2

\* the number of shader invocations of the draw call render issues for count
Invocations(b, count) ==
  IF b = "tex_buffer" THEN tex_buffer_lines_render(ZeroedDevice, count).draws[1].count
  ELSE IF b = "ssbo" THEN ssbo_lines_render(ZeroedDevice, count).draws[1].count
  ELSE instancing_lines_render(ZeroedDevice, count).draws[1].count
         * instancing_lines_render(ZeroedDevice, count).draws[1].instances

\* invocation number id of the draw of backend b
VsInvocation(b, storage, elem_size, id, u) ==
  IF b = "tex_buffer" THEN tex_buffer_lines_vs(storage, id, u)
  ELSE IF b = "ssbo" THEN ssbo_lines_vs(storage, id, u)
  ELSE instancing_lines_vs(storage, elem_size, id \div 6, id % 6, u)

\* init_device has returned: glNamedBufferStorage( buffer, MAX_VERTS *
\* sizeof(vertex_t), NULL, ... ) has created the storage of the line data
\* without writing it, and its content is undefined: zeros, or the floats
\* another buffer left in the memory.  Of the storage the first
\* 8 * FrameMaxLen floats are followed, which the draws of the model stay in.
\* elem_size is sizeof(vertex_t) of the build; block is the uniform block
\* whose address the caller passes to update.
InitShader ==
  /\ ExpanderIdle
  /\ guard = NotCalled
  /\ gl = NotCalled
  /\ DeviceIdle
  /\ \E b \in {"tex_buffer", "ssbo", "instancing"},
        elem_size \in {SizeofVertex, SizeofVertexCol4},
        fill \in {<<R(0), R(0), R(0), R(0), R(0), R(0), R(0), R(0)>>,
                  VertexFloats(VD, SizeofVertexCol4)},
        u \in Uniforms :
        vs = [at |-> "init", backend |-> b, elem_size |-> elem_size,
              storage |-> [j \in 1 .. 8 * FrameMaxLen |-> fill[((j - 1) % 8) + 1]],
              block |-> u, data |-> <<>>, uploaded |-> 0, u |-> "NULL", frame |-> 0,
              count |-> 0, id |-> 0, out |-> <<>>]

\* update( device, data, n_elems, elem_size, uniform_data ) of the three
\* backends (tex_buffer_lines.h 190-198, ssbo_lines.h 179-189,
\* instancing_lines.h 238-246): the pointer is kept and the data uploaded into
\* the storage.  The updates taken are those after which the norm of every
\* direction the draw of n_elems normalizes is rational.  No draw is running
\* on the GPU when the data is replaced.
ShaderUpdate ==
  /\ vs.at = "draw" => vs.id = vs.count
  /\ vs.frame < ShaderFrames
  /\ \E data \in ShaderBuffers :
        /\ \A id \in 0 .. Invocations(vs.backend, Len(data)) - 1 :
              id % 6 = 0 =>
                \A o \in { VsInvocation(vs.backend,
                                         glNamedBufferSubData(vs.storage, data, vs.elem_size),
                                         vs.elem_size, id, vs.block) } :
                  ExactSegment(o.a, o.b, vs.block)
        /\ vs' = [vs EXCEPT !.at = "updated",
                             !.storage = glNamedBufferSubData(vs.storage, data, vs.elem_size),
                             !.data = data,
                             !.uploaded = Len(data) * (vs.elem_size \div 4),
                             !.u = vs.block,
                             !.frame = vs.frame + 1]
  /\ UNCHANGED expander_vars
  /\ UNCHANGED <<guard, gl>>
  /\ UNCHANGED device_vars

\* render( device, count ) with the count the update returned (main.c 276-277):
\* the draw call is issued, none of its invocations has run
ShaderRender ==
  /\ vs.at = "updated"
  /\ vs' = [vs EXCEPT !.at = "draw", !.count = Invocations(vs.backend, Len(vs.data)),
                       !.id = 0, !.out = <<>>]
  /\ UNCHANGED expander_vars
  /\ UNCHANGED <<guard, gl>>
  /\ UNCHANGED device_vars

\* the next invocation of the draw has returned o
Invoked(o) ==
  /\ vs' = [vs EXCEPT !.id = vs.id + 1, !.out = Append(vs.out, o)]
  /\ UNCHANGED expander_vars
  /\ UNCHANGED <<guard, gl>>
  /\ UNCHANGED device_vars

TexBufferVertexShader ==
  /\ vs.at = "draw"
  /\ vs.backend = "tex_buffer"
  /\ vs.id < vs.count
  /\ Invoked(tex_buffer_lines_vs(vs.storage, vs.id, vs.u))

SsboVertexShader ==
  /\ vs.at = "draw"
  /\ vs.backend = "ssbo"
  /\ vs.id < vs.count
  /\ Invoked(ssbo_lines_vs(vs.storage, vs.id, vs.u))

InstancingVertexShader ==
  /\ vs.at = "draw"
  /\ vs.backend = "instancing"
  /\ vs.id < vs.count
  /\ Invoked(instancing_lines_vs(vs.storage, vs.elem_size, vs.id \div 6, vs.id % 6, vs.u))

SpecShader ==
  InitShader /\ [][ShaderUpdate \/ ShaderRender \/ TexBufferVertexShader \/ SsboVertexShader \/ InstancingVertexShader]_vars

---------------------------------------------------------------------------
(* Vocabulary of the properties *)

\* the call has returned
Done == pc = "done"

\* the call returned through the loop, not through the capacity error
Expanded == Done /\ ~diag

\* number of iterations of the loop of line 43 for the input of the call
Iterations == (Len(line_buf) + 1) \div 2

\* the two input vertices the k-th iteration loads (C indices 2k and 2k+1)
SrcA(k) == ReadLine(line_buf, past_end, 2 * k)

SrcB(k) == ReadLine(line_buf, past_end, 2 * k + 1)

\* output records 6k .. 6k+5, as a sequence of six
Block(k) == [j \in 1 .. 6 |-> quad_buf[6 * k + j - 1]]

\* the position of an output record in normalized device coordinates
NdcOf(rec) == msh_vec2(FDiv(rec.clip_pos.x, rec.clip_pos.w),
                       FDiv(rec.clip_pos.y, rec.clip_pos.w))

\* the projected endpoints of the k-th segment differ
NonDegenerate(k) ==
  LET v == DirVector(SrcA(k), SrcB(k), uniform)
  IN  IsFinite(v.x) /\ IsFinite(v.y) /\ (v.x.n # 0 \/ v.y.n # 0)

\* twice the signed area of the triangle (p, q, r)
SignedArea(p, q, r) ==
  FSub(FMul(FSub(q.x, p.x), FSub(r.y, p.y)), FMul(FSub(q.y, p.y), FSub(r.x, p.x)))

---------------------------------------------------------------------------
(* Properties of cpu_lines_expand *)

\* C1: an input of 2n vertices whose 6n output vertices are strictly below the
\* capacity is expanded into exactly 6n records, stored at 0 .. 6n-1, and the
\* count reported is 6n.
C1_SegmentCount ==
  (Done /\ Len(line_buf) % 2 = 0 /\ 3 * Len(line_buf) < quad_buf_cap)
    => /\ ~diag
       /\ quad_buf_len = 3 * Len(line_buf)
       /\ writes = 0 .. (3 * Len(line_buf) - 1)
       /\ \A k \in writes : quad_buf[k] # Stale

C1_Witness ==
  /\ Done /\ Len(line_buf) = 2 /\ quad_buf_cap > 6
  /\ old_quad_buf_len = StaleCount /\ quad_buf_len = 6 /\ writes = 0 .. 5

\* C2: when the input needs more output vertices than the capacity
\* (3 * line_buf_len > quad_buf_cap) the call prints the diagnostic and stores
\* nothing: every output record is what it was before the call.
C2_CapacityGuard ==
  (Done /\ 3 * Len(line_buf) > quad_buf_cap)
    => (diag /\ writes = {} /\ quad_buf = old_quad_buf)

C2_Witness ==
  Done /\ Len(line_buf) = 2 /\ quad_buf_cap = 5 /\ diag /\ quad_buf = old_quad_buf

\* C3: for every input length and capacity the call stores no record at an
\* index >= quad_buf_cap, and the count it reports is at most quad_buf_cap.
C3_WithinCapacity ==
  Expanded => ((\A k \in writes : k < quad_buf_cap) /\ quad_buf_len <= quad_buf_cap)

\* C4: for a non-degenerate segment the triangles (0,1,2) and (3,4,5) of its
\* six records have signed areas of the same sign in NDC.  Stated for the
\* calls no other property disputes: an even length, strictly below capacity.
C4_WindingConsistent ==
  (Expanded /\ Len(line_buf) % 2 = 0 /\ 3 * Len(line_buf) < quad_buf_cap) =>
    \A k \in 0 .. Iterations - 1 :
      NonDegenerate(k) =>
        LET q  == Block(k)
            t1 == SignedArea(NdcOf(q[1]), NdcOf(q[2]), NdcOf(q[3]))
            t2 == SignedArea(NdcOf(q[4]), NdcOf(q[5]), NdcOf(q[6]))
        IN  (FGt(t1, R(0)) /\ FGt(t2, R(0))) \/ (FLt(t1, R(0)) /\ FLt(t2, R(0)))

\* C5: an even-length input whose required output equals the capacity
\* (3 * line_buf_len = quad_buf_cap) is expanded in full, without the error.
C5_ExactFit ==
  (Done /\ Len(line_buf) % 2 = 0 /\ Len(line_buf) > 0
        /\ 3 * Len(line_buf) = quad_buf_cap)
    => (~diag /\ quad_buf_len = 3 * Len(line_buf)
              /\ writes = 0 .. (3 * Len(line_buf) - 1))

\* C6: when the call fails the capacity check, *quad_buf_len is zero on
\* return, whatever it held before.  Stated for the failures no other property
\* disputes: the input needs more than the capacity.
C6_ZeroCountOnFailure ==
  (Done /\ diag /\ 3 * Len(line_buf) > quad_buf_cap) => quad_buf_len = 0

\* C7: for an input of odd length 2n+1 that passes the capacity check the
\* call emits exactly 6n vertices and loads no input index >= line_buf_len.
C7_OddTailIgnored ==
  (Expanded /\ Len(line_buf) % 2 = 1)
    => /\ quad_buf_len = 6 * (Len(line_buf) \div 2)
       /\ \A i \in reads : i < Len(line_buf)

\* C8: output records 6k .. 6k+5 are the value of one function of input
\* vertices 2k and 2k+1 and of (mvp, viewport_size, aa_radius), whatever the
\* other input vertices are; the loop loads exactly those two indices for them.
C8_DisjointPairs ==
  Expanded =>
    /\ \A k \in 0 .. Iterations - 1 :
         Block(k) = SegmentQuad(SrcA(k), SrcB(k), uniform.mvp,
                                uniform.viewport_size, uniform.aa_radius)
    /\ reads = UNION { {2 * k, 2 * k + 1} : k \in 0 .. Iterations - 1 }
    /\ quad_buf_len = 6 * Iterations

C8_Witness ==
  /\ Expanded /\ Len(line_buf) = 3
  /\ SrcA(0) # SrcA(1) /\ SrcB(0) # SrcB(1)
  /\ Block(0) # Block(1)
  /\ quad_buf[6] # Stale

\* the effective half-width of an endpoint: max(1, width) + aa_radius.x
WidthEff(v) == FAdd(IF FLt(v.width, R(1)) THEN R(1) ELSE v.width, uniform.aa_radius.x)

\* the unit direction of the k-th segment, corrected for the aspect ratio
UnitDir(k) ==
  LET v    == DirVector(SrcA(k), SrcB(k), uniform)
      norm == FSqrt(FAdd(FMul(v.x, v.x), FMul(v.y, v.y)))
  IN  msh_vec2(FDiv(v.x, norm), FDiv(v.y, norm))

\* the corner the claim states: P + sn * n + se * e, with
\* n = (w/viewport.x, w/viewport.y) * (-dir.y, dir.x), e = (aa.y/viewport.x, aa.y/viewport.y) * dir
StatedCorner(dir, P, w, sn, se) ==
  msh_vec2(FAdd(P.x, FAdd(FMul(R(sn), FMul(FDiv(w, uniform.viewport_size.x), FNeg(dir.y))),
                          FMul(R(se), FMul(FDiv(uniform.aa_radius.y, uniform.viewport_size.x), dir.x)))),
           FAdd(P.y, FAdd(FMul(R(sn), FMul(FDiv(w, uniform.viewport_size.y), dir.x)),
                          FMul(R(se), FMul(FDiv(uniform.aa_radius.y, uniform.viewport_size.y), dir.y)))))

NdcA(k) == Ndc(ClipPos(uniform.mvp, SrcA(k)))

NdcB(k) == Ndc(ClipPos(uniform.mvp, SrcB(k)))

\* the spec's concrete scenario: A = (-1,0,0), B = (1,0,0), width 2, identity
\* mvp, viewport (800, 600), aa_radius (2, 2)
Scenario(k) ==
  /\ SrcA(k).pos = msh_vec3(R(-1), R(0), R(0)) /\ SrcA(k).width = R(2)
  /\ SrcB(k).pos = msh_vec3(R(1), R(0), R(0)) /\ SrcB(k).width = R(2)
  /\ uniform.mvp = MatIdentity
  /\ uniform.viewport_size = msh_vec2(R(800), R(600))
  /\ uniform.aa_radius = msh_vec2(R(2), R(2))

\* C9: for a non-degenerate segment the four corners are, in NDC,
\* A + nA - e, A - nA - e, B + nB + e, B - nB + e (records 0, 1, 2, 5; records
\* 3 and 4 repeat 1 and 2); in the concrete scenario they are
\* (-1 - 2/800, +-4/600) and (1 + 2/800, +-4/600).
C9_Corners ==
  Expanded =>
    \A k \in 0 .. Iterations - 1 :
      NonDegenerate(k) =>
        LET q   == Block(k)
            dir == UnitDir(k)
            A   == NdcA(k)
            B   == NdcB(k)
            wA  == WidthEff(SrcA(k))
            wB  == WidthEff(SrcB(k))
        IN  /\ NdcOf(q[1]) = StatedCorner(dir, A, wA,  1, -1)
            /\ NdcOf(q[2]) = StatedCorner(dir, A, wA, -1, -1)
            /\ NdcOf(q[3]) = StatedCorner(dir, B, wB,  1,  1)
            /\ NdcOf(q[6]) = StatedCorner(dir, B, wB, -1,  1)
            /\ q[4].clip_pos = q[2].clip_pos
            /\ q[5].clip_pos = q[3].clip_pos
            /\ Scenario(k) =>
                 /\ NdcOf(q[1]) = msh_vec2(FSub(R(-1), Rat(2, 800)), Rat(4, 600))
                 /\ NdcOf(q[2]) = msh_vec2(FSub(R(-1), Rat(2, 800)), Rat(-4, 600))
                 /\ NdcOf(q[3]) = msh_vec2(FAdd(R(1), Rat(2, 800)), Rat(4, 600))
                 /\ NdcOf(q[6]) = msh_vec2(FAdd(R(1), Rat(2, 800)), Rat(-4, 600))

C9_Witness ==
  /\ Expanded /\ Len(line_buf) = 2 /\ Scenario(0)
  /\ NdcOf(quad_buf[0]) = msh_vec2(Rat(-401, 400), Rat(1, 150))
  /\ NdcOf(quad_buf[5]) = msh_vec2(Rat(401, 400), Rat(-1, 150))

\* the k-th segment is purely vertical in NDC
VerticalInNdc(k) ==
  /\ NonDegenerate(k)
  /\ NdcA(k).x = NdcB(k).x

NonSquareViewport == uniform.viewport_size.x # uniform.viewport_size.y

FAbs(a) == [n |-> Abs(a.n), d |-> a.d]

\* C10: for a non-square viewport and a segment purely vertical in NDC, every
\* corner lies at distance (effective width / viewport_size.x) from its
\* endpoint in NDC x, and the lateral offset has no y part: the two corners of
\* an endpoint have the same NDC y, the endpoint's moved by the cap extension
\* aa_radius.y / viewport_size.y only.
C10_AspectCorrection ==
  (Expanded /\ NonSquareViewport) =>
    \A k \in 0 .. Iterations - 1 :
      VerticalInNdc(k) =>
        LET q   == Block(k)
            W   == uniform.viewport_size.x
            H   == uniform.viewport_size.y
            ext == FDiv(uniform.aa_radius.y, H)
            dx(rec, P) == FAbs(FSub(NdcOf(rec).x, P.x))
            dy(rec, P) == FAbs(FSub(NdcOf(rec).y, P.y))
        IN  /\ dx(q[1], NdcA(k)) = FDiv(WidthEff(SrcA(k)), W)
            /\ dx(q[2], NdcA(k)) = FDiv(WidthEff(SrcA(k)), W)
            /\ dx(q[3], NdcB(k)) = FDiv(WidthEff(SrcB(k)), W)
            /\ dx(q[6], NdcB(k)) = FDiv(WidthEff(SrcB(k)), W)
            /\ NdcOf(q[1]).y = NdcOf(q[2]).y
            /\ NdcOf(q[3]).y = NdcOf(q[6]).y
            /\ dy(q[1], NdcA(k)) = ext
            /\ dy(q[3], NdcB(k)) = ext

C10_Witness ==
  /\ Expanded /\ Len(line_buf) = 2
  /\ uniform.viewport_size = msh_vec2(R(1000), R(500))
  /\ VerticalInNdc(0)
  /\ SrcA(0).width # SrcB(0).width
  /\ FAbs(FSub(NdcOf(quad_buf[0]).x, NdcA(0).x)) = Rat(4, 1000)

---------------------------------------------------------------------------
(* Properties of the values cpu_lines_expand emits *)

\* a call that returned through the loop on an input of even length whose
\* output is strictly below the capacity: the calls on which the pairing and
\* the capacity check are not in dispute
PlainCall == Expanded /\ Len(line_buf) % 2 = 0 /\ 3 * Len(line_buf) < quad_buf_cap

Scale2(v) == msh_vec2(FMul(R(2), v.x), FMul(R(2), v.y))

Half2(v) == msh_vec2(FMul(Rat(1, 2), v.x), FMul(Rat(1, 2), v.y))

\* the six records of the k-th segment of the call, had the call been made
\* with viewport_size vsize and aa_radius aa instead
BlockWith(k, vsize, aa) == SegmentQuad(SrcA(k), SrcB(k), uniform.mvp, vsize, aa)

\* the projected endpoint record j of the k-th block is built from
EndpointOf(k, j) == IF j \in {1, 2, 4} THEN NdcA(k) ELSE NdcB(k)

\* the offset of a record from a point, in NDC
OffsetFrom(rec, P) == msh_vec2_sub(NdcOf(rec), P)

\* the unit direction from A to B in NDC, corrected for the aspect ratio
UnitDirOf(A, B) ==
  LET vx   == FSub(B.x, A.x)
      vy   == FMul(FSub(B.y, A.y), AspectRatio(uniform.viewport_size))
      norm == FSqrt(FAdd(FMul(vx, vx), FMul(vy, vy)))
  IN  msh_vec2(FDiv(vx, norm), FDiv(vy, norm))

GeometryOf(clip_a, clip_b, A, B) ==
  [clip_a |-> clip_a, clip_b |-> clip_b, A |-> A, B |-> B, dir |-> UnitDirOf(A, B)]

GeometryOfClip(clip_a, clip_b) == GeometryOf(clip_a, clip_b, Ndc(clip_a), Ndc(clip_b))

\* the k-th segment of the call as the properties see it: the transformed
\* endpoints, their projections A and B, and the unit direction from A to B
Geometry(k) == GeometryOfClip(ClipPos(uniform.mvp, SrcA(k)), ClipPos(uniform.mvp, SrcB(k)))

\* the segment has a direction: its projected endpoints differ
Proper(g) == IsFinite(g.dir.x) /\ IsFinite(g.dir.y)

\* C11 (as stated): with viewport_size doubled, aa_radius halved and the
\* widths unchanged, every record of every non-degenerate segment has the NDC
\* position it has in the call made.
C11_ScaleInvariance ==
  PlainCall =>
    \A k \in 0 .. Iterations - 1 :
      NonDegenerate(k) =>
        \A scaled \in { BlockWith(k, Scale2(uniform.viewport_size), Half2(uniform.aa_radius)) } :
          \A j \in 1 .. 6 : NdcOf(scaled[j]) = NdcOf(Block(k)[j])

\* C11 (amended): with viewport_size doubled and aa_radius and the widths
\* unchanged, the NDC offset of every record from its projected endpoint is
\* half of what it is in the call made, for every non-degenerate segment: the
\* quad keeps its extent in pixels.
C11_PixelExtentKept ==
  Expanded =>
    \A k \in 0 .. Iterations - 1 :
      \A g \in { Geometry(k) } :
        Proper(g) =>
          \A scaled \in { BlockWith(k, Scale2(uniform.viewport_size), uniform.aa_radius) } :
            \A j \in 1 .. 6 :
              \A P \in { IF j \in {1, 2, 4} THEN g.A ELSE g.B } :
                OffsetFrom(scaled[j], P) = Half2(OffsetFrom(Block(k)[j], P))

C11_Witness ==
  /\ Expanded /\ Len(line_buf) = 2 /\ Scenario(0)
  /\ OffsetFrom(quad_buf[0], NdcA(0)) = msh_vec2(Rat(-1, 400), Rat(1, 150))
  /\ OffsetFrom(BlockWith(0, Scale2(uniform.viewport_size), uniform.aa_radius)[1], NdcA(0))
       = msh_vec2(Rat(-1, 800), Rat(1, 300))

\* the alpha the records built from A (1, 2, 4) and from B (3, 5, 6) carry
AlphaOfA(k) == Block(k)[1].col.w

AlphaOfB(k) == Block(k)[3].col.w

\* every record of the k-th block carries the colour and the width of the
\* first record built from the same endpoint
UniformPerEndpoint(k) ==
  LET q == Block(k)
  IN  /\ q[2].col = q[1].col /\ q[4].col = q[1].col
      /\ q[5].col = q[3].col /\ q[6].col = q[3].col
      /\ q[2].line_params.z = q[1].line_params.z /\ q[4].line_params.z = q[1].line_params.z
      /\ q[5].line_params.z = q[3].line_params.z /\ q[6].line_params.z = q[3].line_params.z

SubPixel(v) == FLt(v.width, R(1))

\* C12: for each endpoint whose requested width is below one pixel, the
\* records built from it carry that endpoint's own alpha multiplied by the
\* width, and line_params.z, the half-width the corners are placed with, is
\* 1 + aa_radius.x.
C12_SubPixelAlpha ==
  PlainCall =>
    \A k \in 0 .. Iterations - 1 :
      /\ UniformPerEndpoint(k)
      /\ SubPixel(SrcA(k)) =>
           /\ AlphaOfA(k) = FMul(SrcA(k).col.w, SrcA(k).width)
           /\ Block(k)[1].line_params.z = FAdd(R(1), uniform.aa_radius.x)
      /\ SubPixel(SrcB(k)) =>
           /\ AlphaOfB(k) = FMul(SrcB(k).col.w, SrcB(k).width)
           /\ Block(k)[3].line_params.z = FAdd(R(1), uniform.aa_radius.x)

\* C13: for each endpoint whose requested width is at least one pixel the
\* records built from it carry the endpoint's input alpha unchanged.  For B
\* it is stated where A and B have the same input alpha, so that which
\* endpoint's alpha line 94 starts from is not in dispute here.
C13_AlphaKeptFromOnePixel ==
  PlainCall =>
    \A k \in 0 .. Iterations - 1 :
      /\ ~SubPixel(SrcA(k)) => AlphaOfA(k) = SrcA(k).col.w
      /\ (~SubPixel(SrcB(k)) /\ SrcB(k).col.w = SrcA(k).col.w)
           => AlphaOfB(k) = SrcB(k).col.w

\* C14: every record carries the red, green and blue of the endpoint it is
\* built from: records 1, 2, 4 those of A, records 3, 5, 6 those of B.
C14_RgbOfOwnEndpoint ==
  PlainCall =>
    \A k \in 0 .. Iterations - 1 :
      \A j \in 1 .. 6 :
        LET src == IF j \in {1, 2, 4} THEN SrcA(k) ELSE SrcB(k)
            col == Block(k)[j].col
        IN  col.x = src.col.x /\ col.y = src.col.y /\ col.z = src.col.z

\* record j of a block is built from A (1, 2, 4) or from B (3, 5, 6)
FromA(j) == j \in {1, 2, 4}

OwnSrc(k, j) == IF FromA(j) THEN SrcA(k) ELSE SrcB(k)

\* the mvp-transformed position of the endpoint record j is built from
OwnClip(k, j) == ClipPos(uniform.mvp, OwnSrc(k, j))

\* the corner record j stands for is offset by +normal (1, 3, 5) or -normal
NormalSign(j) == IF j \in {1, 3, 5} THEN 1 ELSE -1

\* the cap extension is subtracted at A and added at B
ExtensionSign(j) == IF FromA(j) THEN -1 ELSE 1

\* the expanded NDC corner record j of the k-th block stands for
CornerOf(k, j) ==
  StatedCorner(UnitDir(k), EndpointOf(k, j), WidthEff(OwnSrc(k, j)),
               NormalSign(j), ExtensionSign(j))

\* the same corner, for the geometry g of the k-th segment
CornerIn(g, k, j) ==
  StatedCorner(g.dir, IF FromA(j) THEN g.A ELSE g.B, WidthEff(OwnSrc(k, j)),
               NormalSign(j), ExtensionSign(j))

\* C15: every record keeps the z and the w of the mvp-transformed position of
\* its own endpoint, and for a non-degenerate segment its clip x and y are the
\* expanded NDC corner multiplied by that endpoint's w.
C15_ClipOfOwnEndpoint ==
  Expanded =>
    \A k \in 0 .. Iterations - 1 :
      \A g \in { Geometry(k) } :
        \A j \in 1 .. 6 :
          \A own \in { IF FromA(j) THEN g.clip_a ELSE g.clip_b } :
            /\ Block(k)[j].clip_pos.z = own.z
            /\ Block(k)[j].clip_pos.w = own.w
            /\ Proper(g) =>
                 \A corner \in { CornerIn(g, k, j) } :
                   /\ Block(k)[j].clip_pos.x = FMul(corner.x, own.w)
                   /\ Block(k)[j].clip_pos.y = FMul(corner.y, own.w)

C15_Witness ==
  /\ Expanded /\ Len(line_buf) = 2 /\ uniform.mvp = MatPersp /\ NonDegenerate(0)
  /\ OwnClip(0, 1).w = Rat(3, 2) /\ OwnClip(0, 3).w = Rat(5, 2)
  /\ quad_buf[0].clip_pos.w = Rat(3, 2) /\ quad_buf[0].clip_pos.z = R(1)
  /\ quad_buf[2].clip_pos.w = Rat(5, 2)
  /\ quad_buf[2].clip_pos.x = FMul(CornerOf(0, 3).x, Rat(5, 2))
  /\ quad_buf[2].clip_pos.x # FMul(CornerOf(0, 3).x, Rat(3, 2))

\* C16: line_params.y is -1 on every record built from A and +1 on every
\* record built from B; line_params.x is -1 on every record whose corner is
\* offset by +normal and +1 on every record whose corner is offset by
\* -normal; records 4 and 5 carry the position and the (u, v) of records 2
\* and 3, which they repeat.
C16_SignedUnitCoordinates ==
  Expanded =>
    \A k \in 0 .. Iterations - 1 :
      /\ \A g \in { Geometry(k) } :
           \A j \in 1 .. 6 :
             \A rec \in { Block(k)[j] } :
               /\ rec.line_params.y = (IF FromA(j) THEN R(-1) ELSE R(1))
               /\ rec.line_params.x \in {R(-1), R(1)}
               /\ Proper(g) =>
                    NdcOf(rec) = StatedCorner(g.dir, IF FromA(j) THEN g.A ELSE g.B,
                                              WidthEff(OwnSrc(k, j)),
                                              -rec.line_params.x.n, rec.line_params.y.n)
      /\ Block(k)[4].clip_pos = Block(k)[2].clip_pos
      /\ Block(k)[4].line_params = Block(k)[2].line_params
      /\ Block(k)[5].clip_pos = Block(k)[3].clip_pos
      /\ Block(k)[5].line_params = Block(k)[3].line_params

C16_Witness ==
  /\ Expanded /\ Len(line_buf) = 2 /\ NonDegenerate(0)
  /\ SrcA(0).width # SrcB(0).width
  /\ quad_buf[0].line_params.x = R(-1) /\ quad_buf[0].line_params.y = R(-1)
  /\ quad_buf[5].line_params.x = R(1) /\ quad_buf[5].line_params.y = R(1)
  /\ NdcOf(quad_buf[0]) = CornerOf(0, 1) /\ NdcOf(quad_buf[5]) = CornerOf(0, 6)
  /\ quad_buf[3] = quad_buf[1] /\ quad_buf[4] = quad_buf[2]

\* the length of the k-th segment on a viewport of viewport_size pixels per
\* NDC unit: the norm of (B - A) * viewport_size
PixelLength(k) ==
  LET dx == FMul(FSub(NdcB(k).x, NdcA(k).x), uniform.viewport_size.x)
      dy == FMul(FSub(NdcB(k).y, NdcA(k).y), uniform.viewport_size.y)
  IN  FSqrt(FAdd(FMul(dx, dx), FMul(dy, dy)))

\* C17: on every record line_params.z is max(1, width of its own endpoint) +
\* aa_radius.x, and line_params.w is half of (pixel length of the segment +
\* 2 * aa_radius.y), the same on the six records of the segment.
C17_WidthAndHalfLength ==
  Expanded =>
    \A k \in 0 .. Iterations - 1 :
      \A half \in { FMul(Rat(1, 2), FAdd(PixelLength(k), FMul(R(2), uniform.aa_radius.y))) } :
        \A j \in 1 .. 6 :
          /\ Block(k)[j].line_params.z = WidthEff(OwnSrc(k, j))
          /\ Block(k)[j].line_params.w = half

C17_Witness ==
  /\ Expanded /\ Len(line_buf) = 2 /\ Scenario(0)
  /\ PixelLength(0) = R(1600)
  /\ \A k \in 0 .. 5 : quad_buf[k].line_params.z = R(4)
                        /\ quad_buf[k].line_params.w = R(802)

---------------------------------------------------------------------------
(* Properties of cpu_lines_expand over the frames of SpecFrames *)

\* the step of the behaviour is a call that returns through the loop
ExpandStep == pc = "call" /\ pc' = "done" /\ ~diag'

\* C18: a call that returns through the loop leaves the input vertices as
\* they were and changes no output record at an index >= the count it
\* reports: whatever earlier calls stored there is still there.
C18_FrameEffect ==
  [][ ExpandStep =>
        /\ line_buf' = line_buf
        /\ past_end' = past_end
        /\ \A k \in DOMAIN quad_buf :
             k >= quad_buf_len' => quad_buf'[k] = quad_buf[k] ]_vars

C18_Witness ==
  /\ Expanded /\ Len(line_buf) = 2
  /\ old_quad_buf_len = 0 /\ quad_buf_len = 6
  /\ old_quad_buf[0] # quad_buf[0]
  /\ quad_buf[6] # Stale /\ quad_buf[6] = old_quad_buf[6]
  /\ quad_buf[11] # Stale /\ quad_buf[11] = old_quad_buf[11]

\* output memory no call has written to
FreshMemory == [k \in DOMAIN quad_buf |-> Stale]

\* what the call just made returns when it is the first call ever made: on
\* memory never written to, with a count variable holding 0
FirstCall ==
  cpu_lines_expand(line_buf, past_end, Len(line_buf), FreshMemory, 0, quad_buf_cap, uniform)

\* C19: after any sequence of calls on the same output memory, the count and records 0 .. count-1 left by a call that returned
\* through the loop are those the same call leaves when it is the first:
\* they depend on the inputs of the last call only.
C19_RebuiltEveryCall ==
  Expanded =>
    \E first \in { FirstCall } :
      /\ quad_buf_len = first.quad_buf_len
      /\ \A k \in 0 .. quad_buf_len - 1 : quad_buf[k] = first.quad_buf[k]

C19_Witness ==
  /\ Expanded /\ Len(line_buf) = 2
  /\ quad_buf_len = 6
  /\ old_quad_buf[6] # Stale /\ quad_buf[6] = old_quad_buf[6]
  /\ old_quad_buf[0] # Stale /\ old_quad_buf[0] # quad_buf[0]
  /\ old_quad_buf[5] # quad_buf[5]

\* the projected endpoints of the k-th segment coincide
Degenerate(k) == NdcA(k) = NdcB(k)

\* C20: a call on whole segments that fit the capacity reports no error and
\* counts six records for every segment, of zero length or not; the six
\* records of a zero-length segment are stored, with the w and the half-width
\* of their endpoints and a clip x and y that are no number, and every proper
\* segment after it is expanded to its corners as usual.
C20_DegenerateSegmentExpanded ==
  (Done /\ Len(line_buf) % 2 = 0 /\ 3 * Len(line_buf) < quad_buf_cap) =>
    /\ ~diag
    /\ quad_buf_len = 6 * Iterations
    /\ \A k \in 0 .. Iterations - 1 :
         Degenerate(k) =>
           /\ \A j \in 1 .. 6 :
                /\ (6 * k + j - 1) \in writes
                /\ Block(k)[j].clip_pos.w = OwnClip(k, j).w
                /\ Block(k)[j].line_params.z = WidthEff(OwnSrc(k, j))
                /\ IsNaN(Block(k)[j].clip_pos.x) /\ IsNaN(Block(k)[j].clip_pos.y)
           /\ \A k2 \in k + 1 .. Iterations - 1 :
                NonDegenerate(k2) =>
                  \A j \in 1 .. 6 : NdcOf(Block(k2)[j]) = CornerOf(k2, j)

C20_Witness ==
  /\ Expanded /\ line_buf = <<VA, VA, VA, VD>>
  /\ Degenerate(0) /\ NonDegenerate(1)
  /\ quad_buf_len = 12 /\ writes = 0 .. 11
  /\ IsNaN(quad_buf[0].clip_pos.x)
  /\ IsFinite(quad_buf[6].clip_pos.x) /\ NdcOf(quad_buf[6]) = CornerOf(1, 1)

---------------------------------------------------------------------------
(* The capacity check over the 32-bit range *)

\* the records the input needs, 3 * line_buf_len in the integers, exceed the capacity
TrulyExceeds(len, cap) == len > cap \div 3

\* C21: the capacity check rejects every input whose true requirement
\* 3 * line_buf_len exceeds quad_buf_cap, also when line_buf_len * 3 wraps
\* modulo 2^32.
C21_GuardRejectsEveryExcess ==
  guard.at = "done" =>
    (TrulyExceeds(guard.line_buf_len, guard.quad_buf_cap) => guard.rejected)

---------------------------------------------------------------------------
(* The devices: allocation, update, render, term_device *)

\* the last call on the device was update, of the CPU backend
CpuUpdated == backend = "cpu" /\ call.op = "update"

\* C22: the capacity cpu_lines_update declares to the expander (MAX_VERTS
\* records) never exceeds the number of cpu_lines_vertex_t records that fit
\* in the quad_buf allocated by cpu_lines_init_device.
C22_DeclaredCapacityFits ==
  CpuUpdated => quad_buf_cap * SizeofCpuLinesVertex <= device.quad_buf_bytes

\* C23: cpu_lines_update returns exactly the count cpu_lines_expand wrote
\* and uploads exactly that many records; when the expansion fails on
\* capacity it returns 0 and uploads zero bytes, whatever earlier updates did.
C23_UpdateReturnsCountUploaded ==
  CpuUpdated =>
    /\ call.elem_count = quad_buf_len
    /\ gpu.uploaded = call.elem_count * SizeofCpuLinesVertex
    /\ diag => (call.elem_count = 0 /\ gpu.uploaded = 0)
    /\ ~diag => call.elem_count = Cardinality(writes)

\* an update that failed on capacity on a device whose earlier update wrote
\* and uploaded records
C23_Witness ==
  /\ CpuUpdated
  /\ diag
  /\ old_quad_buf[0] # Stale
  /\ call.elem_count = 0
  /\ gpu.uploaded = 0

\* render has returned for an even number of input vertices
RenderedEven == call.op = "render" /\ ~call.fault /\ call.n_elems % 2 = 0

\* C28: for an even input of n vertices every quad-producing backend renders
\* one quad of 6 triangle vertices per segment when render is given what its
\* own update returned: the CPU, texture-buffer and SSBO backends draw 3n
\* vertices, the instancing backend n/2 instances of 6 indices.
C28_OneQuadPerSegment ==
  RenderedEven =>
    /\ backend \in {"cpu", "tex_buffer", "ssbo"} =>
          gpu.draws = << DrawCall("GL_TRIANGLES", 0, 3 * call.n_elems, 1) >>
    /\ backend = "instancing" =>
          gpu.draws = << DrawCall("GL_TRIANGLES", 0, 6, call.n_elems \div 2) >>

\* the backend's update takes a uniform_data pointer and stores it in the device
HasUniformPointer == backend \in Backends \ {"geom_shdr"}

\* on every device, render reads the uniform pointer passed to the most
\* recent update; the pointer is NULL from init_device to the first update,
\* and render is defined only after an update
C29_EveryBackendReadsPointer ==
  /\ (device.live /\ latest = "NULL") => device.uniform_data = "NULL"
  /\ call.op = "init" => (device.uniform_data = "NULL" /\ latest = "NULL")
  /\ call.op = "render" =>
        /\ call.uniform_read = latest
        /\ call.fault <=> latest = "NULL"

\* C29: on every device of a backend whose update takes a uniform data
\* pointer (gl, cpu, instancing, tex_buffer, ssbo) render reads the pointer
\* passed to the most recent update; the pointer is NULL from init_device to
\* the first update, and render is defined only after an update.  The
\* geometry-shader device holds no such pointer: its render takes mvp and
\* viewport as arguments and is defined before any update.
C29_RenderReadsLatestUniform ==
  /\ HasUniformPointer =>
        /\ (device.live /\ latest = "NULL") => device.uniform_data = "NULL"
        /\ call.op = "init" => (device.uniform_data = "NULL" /\ latest = "NULL")
        /\ call.op = "render" =>
              /\ call.uniform_read = latest
              /\ call.fault <=> latest = "NULL"
  /\ backend = "geom_shdr" =>
        /\ device.live => device.uniform_data = "absent"
        /\ call.op = "render" => (call.uniform_read = "args" /\ ~call.fault)

\* render on an instancing device has read the second uniform block, the
\* one the last update passed
C29_Witness ==
  /\ call.op = "render"
  /\ backend = "instancing"
  /\ latest = "u2"
  /\ call.uniform_read = "u2"
  /\ ~call.fault

\* C30: for every backend term_device releases the device record and leaves
\* the caller's handle NULL.
C30_TermReleasesDevice ==
  call.op = "term" => (handle = "NULL" /\ ~device.live)

---------------------------------------------------------------------------
(* The vertex shaders *)

\* the draw runs the shader of a backend that addresses by gl_VertexID, on an
\* even number of vertices
AddressedDraw ==
  vs.at = "draw" /\ vs.backend \in {"tex_buffer", "ssbo"} /\ Len(vs.data) % 2 = 0

\* the invocations run so far that addressed the pair (2k, 2k + 1)
AddressedBy(k) ==
  { i \in 1 .. Len(vs.out) : vs.out[i].line_id_0 = 2 * k /\ vs.out[i].line_id_1 = 2 * k + 1 }

\* C26: in the texture-buffer and SSBO backends, for an even input count n,
\* the draw is of 3n vertices and addresses only input vertices inside the
\* uploaded data: for every gl_VertexID in [0, 3n),
\* line_id_0 = (gl_VertexID / 6) * 2 and line_id_1 = line_id_0 + 1 are
\* indices below n, and every input pair (2k, 2k + 1) is addressed by exactly
\* six vertex IDs.
C26_AddressingInsideData ==
  AddressedDraw =>
    /\ vs.count = 3 * Len(vs.data)
    /\ \A i \in 1 .. Len(vs.out) :
          /\ vs.out[i].line_id_0 = ((i - 1) \div 6) * 2
          /\ vs.out[i].line_id_0 >= 0
          /\ vs.out[i].line_id_1 = vs.out[i].line_id_0 + 1
          /\ vs.out[i].line_id_1 < Len(vs.data)
    /\ vs.id = vs.count =>
          \A k \in 0 .. Len(vs.data) \div 2 - 1 : Cardinality(AddressedBy(k)) = 6

\* the draw of a texture-buffer device for four uploaded vertices has run its
\* twelve invocations, the last of which addressed the pair (2, 3)
C26_Witness ==
  /\ AddressedDraw
  /\ vs.backend = "tex_buffer"
  /\ Len(vs.data) = 4
  /\ vs.id = 12 /\ vs.count = 12
  /\ vs.out[12].line_id_0 = 2 /\ vs.out[12].line_id_1 = 3
  /\ Cardinality(AddressedBy(0)) = 6 /\ Cardinality(AddressedBy(1)) = 6

\* the record of the CPU expander for endpoint x (0 is A, 1 is B) and normal sign y
CpuCorners(quad, x, y) ==
  { quad[j].clip_pos : j \in { jj \in 1 .. 6 : (FromA(jj) <=> x = 0) /\ NormalSign(jj) = y } }

\* invocation i got a pair of line vertices whose projected endpoints differ
ProperInvocation(i) ==
  Proper(GeometryOfClip(ClipPos(vs.u.mvp, vs.out[i].a), ClipPos(vs.u.mvp, vs.out[i].b)))

---------------------------------------------------------------------------
(* The draw calls of gl_lines_render *)

\* the draw calls issued so far cover 0 .. gl.offset - 1 in order, without gap or overlap
DrawsContiguous ==
  /\ \A k \in 1 .. Len(gl.draws) : gl.draws[k].count >= 1
  /\ Len(gl.draws) > 0 => gl.draws[1].first = 0
  /\ \A k \in 1 .. Len(gl.draws) - 1 :
        gl.draws[k + 1].first = gl.draws[k].first + gl.draws[k].count
  /\ Len(gl.draws) > 0 =>
        gl.draws[Len(gl.draws)].first + gl.draws[Len(gl.draws)].count = gl.offset
  /\ Len(gl.draws) = 0 => gl.offset = 0

\* C24: for two or more vertices of any widths, at the start of each
\* iteration i of the loop offset + cur_count = i + 1, and the (offset, count)
\* ranges of the draw calls are contiguous, increasing, non-overlapping, of
\* count at least 1, and when the loop has ended they cover exactly
\* 0 .. vertex_data_len - 1.
C24_DrawRangesPartition ==
  (gl.at # "none" /\ gl.vertex_data_len >= 2) =>
    /\ DrawsContiguous
    /\ (gl.at = "loop" /\ GlLoopCond(gl)) => gl.offset + gl.cur_count = gl.i + 1
    /\ gl.at = "done" => gl.offset = gl.vertex_data_len

\* the loop has ended after a draw call for each of two pairs of different widths
C24_Witness ==
  /\ gl.at = "done"
  /\ gl.vertex_data = <<R(1), R(1), R(2), R(2)>>
  /\ Len(gl.draws) = 2
  /\ gl.draws[1].count = 2
  /\ gl.draws[2].count = 2

\* C25: every draw call of gl_lines_render has an even offset and an even
\* count, so every line drawn is one input pair (2k, 2k+1), for any widths,
\* also when the two endpoints of a pair differ in width.
C25_DrawsWholePairs ==
  (/\ gl.at = "done"
   /\ gl.vertex_data_len % 2 = 0
   /\ \A i \in 1 .. gl.vertex_data_len : IsFinite(gl.vertex_data[i])) =>
    \A k \in 1 .. Len(gl.draws) :
      gl.draws[k].first % 2 = 0 /\ gl.draws[k].count % 2 = 0

=============================================================================
